---- MODULE Spec2Model ----
(***************************************************************************)
(* CASCADE Memory Lite: the tiered storage engine of cascade_memory.py.    *)
(* Two SQLite database files (disk_db, ram_db), the foreground calls       *)
(* remember / recall / checkpoint / close of CascadeMemory, the auto-sync  *)
(* thread, and the file copies between the two tiers.                      *)
(*                                                                         *)
(* Text is a sequence of one-character strings.  A database file is a      *)
(* sequence of pages: for each layer, in MemoryLayer order, the page of    *)
(* the <layer>_memories table (its rows and its AUTOINCREMENT sequence)    *)
(* followed by the page of the <layer>_fts index.  A page that a copy has  *)
(* not written yet reads as an empty table.                                *)
(*                                                                         *)
(* Waiting with a timeout (sqlite3's 5 s busy timeout, join(timeout=5))    *)
(* is untimed here: while the awaited condition is false the wait may     *)
(* either go on or expire.                                                 *)
(***************************************************************************)
EXTENDS Integers, Sequences, FiniteSets, TLC

(***************************************************************************)
(* Bounds of the model.                                                    *)
(***************************************************************************)
NCallers == 2
MaxRemember == 2
MaxRecall == 2
MaxCheckpoint == 2
MaxPasses == 1
MaxClock == 2

(***************************************************************************)
(* Text.                                                                   *)
(***************************************************************************)
UpperCase ==
    <<"A", "B", "C", "D", "E", "F", "G", "H", "I", "J", "K", "L", "M",
      "N", "O", "P", "Q", "R", "S", "T", "U", "V", "W", "X", "Y", "Z">>

LowerCase ==
    <<"a", "b", "c", "d", "e", "f", "g", "h", "i", "j", "k", "l", "m",
      "n", "o", "p", "q", "r", "s", "t", "u", "v", "w", "x", "y", "z">>

DigitChars == {"0", "1", "2", "3", "4", "5", "6", "7", "8", "9"}

\* str.lower() on one character
LowerChar(ch) ==
    IF \E i \in 1..Len(UpperCase) : UpperCase[i] = ch
    THEN LowerCase[CHOOSE i \in 1..Len(UpperCase) : UpperCase[i] = ch]
    ELSE ch

\* str.lower()
Lower(s) == [i \in 1..Len(s) |-> LowerChar(s[i])]

\* Python's `word in combined` on strings: substring test
Contains(hay, needle) ==
    \E i \in 0..(Len(hay) - Len(needle)) :
        SubSeq(hay, i + 1, i + Len(needle)) = needle

IsAlnum(ch) ==
    \/ \E i \in 1..Len(LowerCase) : LowerCase[i] = LowerChar(ch)
    \/ ch \in DigitChars

RECURSIVE TokenizeFrom(_, _, _, _)
TokenizeFrom(s, i, cur, acc) ==
    IF i > Len(s)
    THEN IF cur = <<>> THEN acc ELSE Append(acc, cur)
    ELSE IF IsAlnum(s[i])
         THEN TokenizeFrom(s, i + 1, Append(cur, LowerChar(s[i])), acc)
         ELSE TokenizeFrom(s, i + 1, <<>>,
                           IF cur = <<>> THEN acc ELSE Append(acc, cur))

\* The default FTS5 tokenizer (unicode61) on ASCII text: maximal runs of
\* letters and digits, folded to lower case.
Tokenize(s) == TokenizeFrom(s, 1, <<>>, <<>>)

(***************************************************************************)
(* The six layers and the classifier.                                      *)
(***************************************************************************)
Layers == <<"episodic", "semantic", "procedural", "meta", "identity", "working">>

LayerSet == {Layers[i] : i \in 1..Len(Layers)}

LayerIndex(l) == CHOOSE i \in 1..Len(Layers) : Layers[i] = l

NoLayer == "None"

IdentityMarkers ==
    << <<"i", " ", "a", "m">>,
       <<"m", "y", " ", "n", "a", "m", "e">>,
       <<"w", "h", "o", " ", "i", " ", "a", "m">>,
       <<"m", "y", " ", "i", "d", "e", "n", "t", "i", "t", "y">>,
       <<"c", "o", "r", "e", " ", "v", "a", "l", "u", "e">>,
       <<"b", "e", "l", "i", "e", "v", "e">> >>

ProceduralMarkers ==
    << <<"h", "o", "w", " ", "t", "o">>,
       <<"s", "t", "e", "p", "s", " ", "t", "o">>,
       <<"p", "r", "o", "c", "e", "s", "s">>,
       <<"p", "r", "o", "c", "e", "d", "u", "r", "e">>,
       <<"m", "e", "t", "h", "o", "d">>,
       <<"t", "e", "c", "h", "n", "i", "q", "u", "e">> >>

MetaMarkers ==
    << <<"t", "h", "i", "n", "k", "i", "n", "g", " ", "a", "b", "o", "u", "t">>,
       <<"r", "e", "f", "l", "e", "c", "t", "i", "n", "g">>,
       <<"m", "e", "t", "a">>,
       <<"s", "e", "l", "f", "-", "a", "w", "a", "r", "e">>,
       <<"c", "o", "n", "s", "c", "i", "o", "u", "s", "n", "e", "s", "s">> >>

WorkingMarkers ==
    << <<"c", "u", "r", "r", "e", "n", "t">>,
       <<"r", "i", "g", "h", "t", " ", "n", "o", "w">>,
       <<"t", "h", "i", "s", " ", "s", "e", "s", "s", "i", "o", "n">>,
       <<"w", "o", "r", "k", "i", "n", "g", " ", "o", "n">>,
       <<"a", "c", "t", "i", "v", "e">> >>

SemanticMarkers ==
    << <<"l", "e", "a", "r", "n", "e", "d">>,
       <<"f", "a", "c", "t">>,
       <<"k", "n", "o", "w", "l", "e", "d", "g", "e">>,
       <<"d", "e", "f", "i", "n", "i", "t", "i", "o", "n">>,
       <<"m", "e", "a", "n", "s", " ", "t", "h", "a", "t">> >>

AnyIn(markers, combined) ==
    \E i \in 1..Len(markers) : Contains(combined, markers[i])

\* _determine_layer with the meta test moved before the identity test
DetermineLayerMetaFirst(content, context) ==
    LET combined == Lower(content) \o <<" ">> \o Lower(context)
    IN  IF AnyIn(MetaMarkers, combined) THEN "meta"
        ELSE IF AnyIn(IdentityMarkers, combined) THEN "identity"
        ELSE IF AnyIn(ProceduralMarkers, combined) THEN "procedural"
        ELSE IF AnyIn(WorkingMarkers, combined) THEN "working"
        ELSE IF AnyIn(SemanticMarkers, combined) THEN "semantic"
        ELSE "episodic"

DetermineLayer(content, context) ==
    LET combined == Lower(content) \o <<" ">> \o Lower(context)
    IN  IF AnyIn(IdentityMarkers, combined) THEN "identity"
        ELSE IF AnyIn(ProceduralMarkers, combined) THEN "procedural"
        ELSE IF AnyIn(MetaMarkers, combined) THEN "meta"
        ELSE IF AnyIn(WorkingMarkers, combined) THEN "working"
        ELSE IF AnyIn(SemanticMarkers, combined) THEN "semantic"
        ELSE "episodic"

(***************************************************************************)
(* A database file.                                                        *)
(***************************************************************************)
NULL == 0 - 1

EmptyMem == [rows |-> <<>>, seq |-> 0]

EmptyFts == {}

\* The schema _init_disk_database creates in a fresh file: six empty
\* <layer>_memories tables with their <layer>_fts indexes.
EmptyFile == [mem |-> [l \in LayerSet |-> EmptyMem],
              fts |-> [l \in LayerSet |-> EmptyFts]]

\* sqlite3.connect(self.active_db) on a location whose file is gone makes
\* a new database, which has no tables.
NoTables == [mem |-> [l \in {} |-> EmptyMem], fts |-> [l \in {} |-> EmptyFts]]

HasTables(file) == file # NoTables

NPages == 2 * Len(Layers)

PageLayer(n) == Layers[(n + 1) \div 2]

PageIsMem(n) == n % 2 = 1

PageOf(file, n) ==
    IF PageIsMem(n) THEN file.mem[PageLayer(n)] ELSE file.fts[PageLayer(n)]

WritePage(file, n, src) ==
    IF PageIsMem(n)
    THEN [file EXCEPT !.mem[PageLayer(n)] = src.mem[PageLayer(n)]]
    ELSE [file EXCEPT !.fts[PageLayer(n)] = src.fts[PageLayer(n)]]

RECURSIVE WritePages(_, _, _, _)
\* pages from..to of src written over the same pages of file
WritePages(file, src, from, to) ==
    IF from > to THEN file
    ELSE WritePages(WritePage(file, from, src), src, from + 1, to)

DirtyPages(old, new) == {n \in 1..NPages : PageOf(old, n) # PageOf(new, n)}

MaxOf(S) == CHOOSE x \in S : \A y \in S : y <= x

MinOf(S) == CHOOSE x \in S : \A y \in S : x <= y

RowIds(file, l) == {file.mem[l].rows[i].id : i \in 1..Len(file.mem[l].rows)}

\* The tokens the <layer>_ai / <layer>_au triggers index for a row
DocTokens(content, context, tags) ==
    Tokenize(content) \o Tokenize(context) \o Tokenize(tags)

\* INSERT INTO <layer>_memories with an AUTOINCREMENT key, and the
\* AFTER INSERT trigger that indexes the new row.
NextRowId(file, l) == MaxOf(RowIds(file, l) \cup {file.mem[l].seq}) + 1

InsertRow(file, l, content, timestamp, importance, emotional_intensity, context, tags) ==
    LET id == NextRowId(file, l)
        row == [id |-> id, content |-> content, timestamp |-> timestamp,
                importance |-> importance,
                emotional_intensity |-> emotional_intensity,
                context |-> context, tags |-> tags,
                access_count |-> 0, last_accessed |-> NULL]
    IN  [mem |-> [file.mem EXCEPT
                    ![l] = [rows |-> Append(@.rows, row), seq |-> id]],
         fts |-> [file.fts EXCEPT
                    ![l] = @ \cup {[rowid |-> id,
                                    toks |-> DocTokens(content, context, tags)]}]]

\* UPDATE <layer>_memories SET access_count = access_count + 1,
\* last_accessed = ? WHERE id = ?, and the AFTER UPDATE trigger that
\* removes the row's old index entry and adds the new one.
\* (mutation) an UPDATE that also sets the row's timestamp
BumpRowAndTimestamp(row, t) ==
    [row EXCEPT !.access_count = @ + 1, !.last_accessed = t, !.timestamp = t]

BumpRow(row, t) ==
    [row EXCEPT !.access_count = @ + 1, !.last_accessed = t]

UpdateAccess(file, l, id, t) ==
    LET rows == file.mem[l].rows
        hit == {i \in 1..Len(rows) : rows[i].id = id}
        new == [i \in 1..Len(rows) |->
                   IF i \in hit THEN BumpRow(rows[i], t) ELSE rows[i]]
        old == {e \in file.fts[l] : e.rowid = id /\ hit # {}}
        add == {[rowid |-> id,
                 toks |-> DocTokens(new[i].content, new[i].context, new[i].tags)]
                : i \in hit}
    IN  [mem |-> [file.mem EXCEPT ![l] = [@ EXCEPT !.rows = new]],
         fts |-> [file.fts EXCEPT ![l] = (@ \ old) \cup add]]

(***************************************************************************)
(* Full-text search.                                                       *)
(***************************************************************************)
\* An FTS5 query string of bare words is the AND of its words; an empty
\* query, or one with a character that is neither a letter, a digit nor a
\* space, is an error ('fts5: syntax error', 'no such column').
QueryOK(query) ==
    /\ Tokenize(query) # <<>>
    /\ \A i \in 1..Len(query) : IsAlnum(query[i]) \/ query[i] = " "

Occurrences(toks, t) == Cardinality({i \in 1..Len(toks) : toks[i] = t})

Matches(toks, qtoks) ==
    \A i \in 1..Len(qtoks) : Occurrences(toks, qtoks[i]) > 0

RECURSIVE SumOver(_, _)
SumOver(S, f) ==
    IF S = {} THEN 0
    ELSE LET x == CHOOSE y \in S : TRUE IN f[x] + SumOver(S \ {x}, f)

\* ln((N - n + 0.5) / (n + 0.5)) in millionths; FTS5 replaces a value
\* that is not positive by 1e-6.
IdfMicro(N, n) ==
    LET num == 2 * N - 2 * n + 1
        den == 2 * n + 1
    IN  IF num <= den THEN 1
        ELSE IF 5 * num <= 7 * den THEN 336472
        ELSE IF 3 * num <= 5 * den THEN 510826
        ELSE IF 3 * num <= 7 * den THEN 847298
        ELSE 1098612

\* bm25() of one index entry for the query, k1 = 1.2 and b = 0.75, as an
\* integer in units of 1e-8; smaller is better.
Bm25(fts, e, qtoks) ==
    LET N == Cardinality(fts)
        total == SumOver(fts, [x \in fts |-> Len(x.toks)])
        term(i) ==
            LET tf == Occurrences(e.toks, qtoks[i])
                n == Cardinality({x \in fts : Occurrences(x.toks, qtoks[i]) > 0})
            IN  IdfMicro(N, n) *
                ((2200 * tf * total) \div
                 (10 * tf * total + 3 * total + 9 * Len(e.toks) * N))
    IN  0 - SumOver(1..Len(qtoks), [i \in 1..Len(qtoks) |-> term(i)])

RECURSIVE SortBy(_, _)
\* the elements of S as a sequence, least key first; key[x] is a pair,
\* compared first component first
SortBy(S, key) ==
    IF S = {} THEN <<>>
    ELSE LET x == CHOOSE y \in S : \A z \in S :
                      \/ key[y][1] < key[z][1]
                      \/ key[y][1] = key[z][1] /\ key[y][2] <= key[z][2]
         IN  <<x>> \o SortBy(S \ {x}, key)

\* LIMIT n: a negative n is no limit
Limit(s, n) == IF n < 0 \/ n >= Len(s) THEN s ELSE SubSeq(s, 1, n)

\* SELECT m.*, bm25(<layer>_fts) AS relevance FROM <layer>_memories m
\* JOIN <layer>_fts fts ON m.id = fts.rowid WHERE <layer>_fts MATCH ?
\* ORDER BY relevance LIMIT ?
\* Rows of equal relevance come in rowid order.
Search(file, l, query, limit) ==
    LET qtoks == Tokenize(query)
        ids == RowIds(file, l)
        hits == {e \in file.fts[l] : e.rowid \in ids /\ Matches(e.toks, qtoks)}
        found == {[id |-> e.rowid, layer |-> l,
                   relevance |-> Bm25(file.fts[l], e, qtoks)] : e \in hits}
        key == [r \in found |-> <<r.relevance, r.id>>]
    IN  Limit(SortBy(found, key), limit)

\* A sort that puts the later of two results of equal relevance first
RECURSIVE SortLaterFirst(_)
SortLaterFirst(s) ==
    IF s = <<>> THEN <<>>
    ELSE LET i == MaxOf({j \in 1..Len(s) :
                            \A k \in 1..Len(s) : s[j].relevance <= s[k].relevance})
         IN  <<s[i]>> \o SortLaterFirst(SubSeq(s, 1, i - 1) \o SubSeq(s, i + 1, Len(s)))

\* results.sort(key=lambda x: x['relevance']): a stable sort
RECURSIVE SortStable(_)
SortStable(s) ==
    IF s = <<>> THEN <<>>
    ELSE LET i == MinOf({j \in 1..Len(s) :
                            \A k \in 1..Len(s) : s[j].relevance <= s[k].relevance})
         IN  <<s[i]>> \o SortStable(SubSeq(s, 1, i - 1) \o SubSeq(s, i + 1, Len(s)))

\* results[:limit]
Slice(s, n) ==
    IF n >= 0 THEN SubSeq(s, 1, IF n < Len(s) THEN n ELSE Len(s))
    ELSE SubSeq(s, 1, IF Len(s) + n > 0 THEN Len(s) + n ELSE 0)

(***************************************************************************)
(* Structural listing and statistics.                                      *)
(***************************************************************************)
\* The order_by and where arguments of query_layer that are used here
DefaultOrder == "timestamp DESC"

OrderBys == {DefaultOrder, "timestamp ASC", "id DESC"}

NoWhere == ""

Wheres == {NoWhere, "access_count > 0"}

\* SELECT * FROM <layer>_memories [WHERE <where>] ORDER BY <order_by>
\* LIMIT <limit>.  Rows of equal key come in rowid order.
QueryLayerBy(file, l, limit, order_by, where) ==
    LET rows == file.mem[l].rows
        idx == {i \in 1..Len(rows) : where = NoWhere \/ rows[i].access_count > 0}
        key == [i \in idx |->
                  IF order_by = DefaultOrder THEN <<0 - rows[i].timestamp, i>>
                  ELSE IF order_by = "timestamp ASC" THEN <<rows[i].timestamp, i>>
                  ELSE <<0 - rows[i].id, i>>]
        order == SortBy(idx, key)
    IN  Limit([k \in 1..Len(order) |-> rows[order[k]]], limit)

\* query_layer's defaults: order_by="timestamp DESC", where=""
QueryLayer(file, l, limit) ==
    QueryLayerBy(file, l, limit, DefaultOrder, NoWhere)

\* get_stats with stats['total_memories'] = count in place of += count
GetStatsLastCount(file) ==
    LET count == [l \in LayerSet |-> Len(file.mem[l].rows)]
    IN  [total_memories |-> count[Layers[Len(Layers)]], layers |-> count]

\* SELECT COUNT(*) FROM <layer>_memories for each layer, and their sum
GetStats(file) ==
    LET count == [l \in LayerSet |-> Len(file.mem[l].rows)]
    IN  [total_memories |-> SumOver(LayerSet, count), layers |-> count]

(***************************************************************************)
(* Inputs of the calls.                                                    *)
(***************************************************************************)
TextIAm == <<"I", " ", "a", "m">>

TextAm == <<"a", "m">>

TextI == <<"I">>

TextA == <<"a">>

TextEmpty == <<>>

TextNo == <<"n", "o">>

TextBad == <<"a", "-", "m">>

Contents == {TextIAm, TextAm}

\* Texts for the classifier: every keyword, two keywords of different
\* categories in both orders, a keyword in capitals, a keyword inside a
\* longer word, the halves of a keyword, and text with no keyword.
MarkerTexts(markers) == {markers[i] : i \in 1..Len(markers)}

AllMarkers ==
    MarkerTexts(IdentityMarkers) \cup MarkerTexts(ProceduralMarkers)
        \cup MarkerTexts(MetaMarkers) \cup MarkerTexts(WorkingMarkers)
        \cup MarkerTexts(SemanticMarkers)

OneOfEach ==
    {IdentityMarkers[1], ProceduralMarkers[1], MetaMarkers[5],
     WorkingMarkers[5], SemanticMarkers[2]}

ClassifierContents ==
    AllMarkers
        \cup {a \o <<" ">> \o b : a, b \in OneOfEach}
        \cup {TextIAm, TextAm, TextI, <<"F", "A", "C", "T">>,
              <<"m", "e", "t", "a", "l">>, <<"w", "h", "o", " ", "i">>}

ClassifierContexts == {<<>>, TextAm, MetaMarkers[5]}

Contexts == {<<>>}

TagSets == {<<>>}

\* importance and emotional_intensity in tenths; 5 is the default 0.5
Importances == {5}

RememberLayers == {NoLayer, "episodic"}

Queries == {TextAm, TextI, TextA, TextNo, TextBad}

RecallLayers == {NoLayer}

Limits == {1, 2, 3}

NonPositiveLimits == {0, 0 - 1}

QueryLayers == {"semantic"}

(***************************************************************************)
(* State.                                                                  *)
(***************************************************************************)
VARIABLES
    memory,      \* TRUE iff the adapter's _memory is set (mcp_server.py)
    ram_db,      \* TRUE iff a ram_path was given (self.ram_db is not None)
    auto_sync,   \* the constructor's auto_sync argument
    disk,        \* the file disk_path/cascade_memory.db
    ram,         \* the file ram_path/cascade_memory.db
    now,         \* the last value time.time() returned
    wlock,       \* the caller whose connection holds the write lock of
                 \* the active file, or 0
    exclusive,   \* TRUE while the holder writes its pages to the file
    cache,       \* the holder's view of the active file, with its
                 \* uncommitted changes
    journal,     \* the active file as it was when the holder took the
                 \* lock (its rollback journal)
    pc,          \* where each thread is; thread 0 is the auto-sync thread
    op,          \* the arguments and locals of each caller's call
    ret,         \* what each caller's last call returned
    copying,     \* for each thread, the next table its file copy writes
    assigned,    \* for each layer, the greatest id an INSERT was ever given
    seen,        \* for each thread that is copying, the committed contents
                 \* the source has had since the copy began (history)
    stop_sync,   \* self._stop_sync is set
    closed,      \* close() has returned
    budget       \* how many more calls of each kind the run may make

vars == <<memory, ram_db, auto_sync, disk, ram, now, wlock, exclusive, cache,
          journal, pc, op, ret, copying, seen, assigned, stop_sync, closed, budget>>

Callers == 1..NCallers

SyncThread == 0

Threads == Callers \cup {SyncThread}

NoOp == [kind |-> "none"]

NoRet == [kind |-> "none"]

\* A coordinator that uses the durable file when the fast one is gone
ActiveFileOrDurable == IF ram_db /\ HasTables(ram) THEN ram ELSE disk

\* self.active_db
ActiveFile == IF ram_db THEN ram ELSE disk

\* What a statement of caller p's connection reads
View(p) == IF wlock = p THEN cache ELSE ActiveFile

\* The committed content of the active file
Committed == IF wlock # 0 THEN journal ELSE ActiveFile

\* A constructor without its call of _sync_disk_to_ram
ConstructWithoutHydrate(mirrored, auto, file) ==
    /\ ram_db' = mirrored
    /\ auto_sync' = auto
    /\ disk' = file
    /\ ram' = ram
    /\ wlock' = 0
    /\ exclusive' = FALSE
    /\ cache' = EmptyFile
    /\ journal' = EmptyFile
    /\ pc' = [t \in Threads |->
                IF t = SyncThread
                THEN IF auto /\ mirrored THEN "wait" ELSE "none"
                ELSE "idle"]
    /\ op' = [p \in Callers |-> NoOp]
    /\ ret' = [p \in Callers |-> NoRet]
    /\ copying' = [t \in Threads |-> 0]
    /\ seen' = [t \in Threads |-> {}]
    /\ stop_sync' = FALSE
    /\ closed' = FALSE

\* The constructor: _init_disk_database leaves an existing file's
\* content as it is, _sync_disk_to_ram copies it, _start_auto_sync
\* starts the thread.
Construct(mirrored, auto, file) ==
    /\ ram_db' = mirrored
    /\ auto_sync' = auto
    /\ disk' = file
    /\ ram' = IF mirrored THEN file ELSE ram
    /\ wlock' = 0
    /\ exclusive' = FALSE
    /\ cache' = EmptyFile
    /\ journal' = EmptyFile
    /\ pc' = [t \in Threads |->
                IF t = SyncThread
                THEN IF auto /\ mirrored THEN "wait" ELSE "none"
                ELSE "idle"]
    /\ op' = [p \in Callers |-> NoOp]
    /\ ret' = [p \in Callers |-> NoRet]
    /\ copying' = [t \in Threads |-> 0]
    /\ seen' = [t \in Threads |-> {}]
    /\ stop_sync' = FALSE
    /\ closed' = FALSE

\* The state after construction on a durable location that holds `file`
Start(modes, autos, files, b) ==
    /\ memory = FALSE
    /\ ram_db \in modes
    /\ auto_sync \in (IF ram_db THEN autos ELSE {TRUE})
    /\ disk \in files
    /\ ram = IF ram_db THEN disk ELSE EmptyFile
    /\ now = 1
    /\ wlock = 0
    /\ exclusive = FALSE
    /\ cache = EmptyFile
    /\ journal = EmptyFile
    /\ pc = [t \in Threads |->
               IF t = SyncThread
               THEN IF auto_sync /\ ram_db THEN "wait" ELSE "none"
               ELSE "idle"]
    /\ op = [p \in Callers |-> NoOp]
    /\ ret = [p \in Callers |-> NoRet]
    /\ copying = [t \in Threads |-> 0]
    /\ seen = [t \in Threads |-> {}]
    /\ assigned = [l \in LayerSet |-> 0]
    /\ stop_sync = FALSE
    /\ closed = FALSE
    /\ budget = b

\* The while loop of sync_loop has no bound of its own.
Unlimited == 0 - 1

\* time.time(): a clock that does not go back
TimeValues == {t \in {now, now + 1} : t <= MaxClock}

\* A coordinator that writes through: the active file and the durable one
SetActiveAndDurable(file) ==
    IF ram_db THEN ram' = file /\ disk' = file
    ELSE disk' = file /\ UNCHANGED ram

\* writes to the active file
SetActive(file) ==
    IF ram_db THEN ram' = file /\ UNCHANGED disk
    ELSE disk' = file /\ UNCHANGED ram

\* a call returns
Return(p, value) ==
    /\ pc' = [pc EXCEPT ![p] = "idle"]
    /\ op' = [op EXCEPT ![p] = NoOp]
    /\ ret' = [ret EXCEPT ![p] = value]

(***************************************************************************)
(* remember                                                                *)
(***************************************************************************)
\* remember that classifies whatever category it is given
LayerForReclassified(layer, content, context) ==
    DetermineLayer(content, context)

\* if layer is None: layer = self._determine_layer(content, context)
LayerFor(layer, content, context) ==
    IF layer = NoLayer THEN DetermineLayer(content, context) ELSE layer

\* remember(content, ...) with content one of `contents`: nothing in
\* remember looks at the content before it is classified and inserted.
RememberOf(p, contents) ==
    /\ pc[p] = "idle"
    /\ budget.remember > 0
    /\ \E content \in contents, layer \in RememberLayers,
          importance \in Importances, emotional_intensity \in Importances,
          context \in Contexts, tags \in TagSets, t \in TimeValues :
          /\ now' = t
          /\ op' = [op EXCEPT ![p] =
                      [kind |-> "remember", given |-> layer,
                       layer |-> LayerFor(layer, content, context),
                       content |-> content, timestamp |-> t,
                       importance |-> importance,
                       emotional_intensity |-> emotional_intensity,
                       context |-> context, tags |-> tags]]
    /\ pc' = [pc EXCEPT ![p] = "insert"]
    /\ budget' = [budget EXCEPT !.remember = @ - 1]
    /\ UNCHANGED <<memory, ram_db, auto_sync, disk, ram, wlock, exclusive, cache, journal,
                   ret, copying, seen, assigned, stop_sync, closed>>

RememberCall(p) == RememberOf(p, Contents)

\* remember("am")
RememberOneCall(p) == RememberOf(p, {TextAm})

\* remember("") and remember("am")
RememberEmptyCall(p) == RememberOf(p, {TextEmpty, TextAm})

\* A direct call of _determine_layer, which changes nothing
DetermineLayerCall(p) ==
    /\ pc[p] = "idle"
    /\ \E content \in ClassifierContents, context \in ClassifierContexts :
          ret' = [ret EXCEPT ![p] =
                    [kind |-> "determine_layer", ok |-> TRUE,
                     content |-> content, context |-> context,
                     layer |-> DetermineLayer(content, context)]]
    /\ UNCHANGED <<memory, ram_db, auto_sync, disk, ram, now, wlock, exclusive, cache,
                   journal, pc, op, copying, seen, assigned, stop_sync, closed, budget>>

\* cursor.execute(INSERT ...): the connection takes the write lock
RememberInsert(p) ==
    /\ pc[p] = "insert"
    /\ wlock = 0
    /\ HasTables(ActiveFile)
    /\ LET o == op[p]
           new == InsertRow(ActiveFile, o.layer, o.content, o.timestamp,
                            o.importance, o.emotional_intensity,
                            o.context, o.tags)
       IN  /\ cache' = new
           /\ journal' = ActiveFile
           /\ op' = [op EXCEPT ![p] =
                       [kind |-> "remember", given |-> o.given,
                        layer |-> o.layer, content |-> o.content,
                        context |-> o.context,
                        memory_id |-> NextRowId(ActiveFile, o.layer)]]
           /\ assigned' = [assigned EXCEPT ![o.layer] =
                              MaxOf({@, NextRowId(ActiveFile, o.layer)})]
    /\ wlock' = p
    /\ pc' = [pc EXCEPT ![p] = "commit"]
    /\ UNCHANGED <<memory, ram_db, auto_sync, disk, ram, now, exclusive, ret,
                   copying, seen, stop_sync, closed, budget>>

\* Statements that also wait while a copy of the file is in progress
LockedWhileCopying(p) ==
    \/ pc[p] \in {"insert", "lock"} /\ wlock # 0
    \/ pc[p] = "select" /\ exclusive /\ wlock # p
    \/ pc[p] \in {"insert", "lock", "select"} /\ \E t \in Threads : pc[t] = "copy"

\* A statement that waits for a lock longer than sqlite3's busy timeout
\* raises OperationalError ('database is locked').
Locked(p) ==
    \/ pc[p] \in {"insert", "lock"} /\ wlock # 0
    \/ pc[p] = "select" /\ exclusive /\ wlock # p

Busy(p) ==
    /\ p \in Callers
    /\ Locked(p)
    /\ Return(p, [kind |-> op[p].kind, ok |-> FALSE, error |-> "locked"])
    /\ UNCHANGED <<memory, ram_db, auto_sync, disk, ram, now, wlock, exclusive,
                   cache, journal, copying, seen, assigned, stop_sync, closed, budget>>

\* What the call of caller p returns once its commit is done
Result(p) ==
    LET o == op[p]
    IN  IF o.kind = "remember"
        THEN [kind |-> "remember", ok |-> TRUE, given |-> o.given,
              layer |-> o.layer, memory_id |-> o.memory_id,
              content |-> o.content, context |-> o.context]
        ELSE [kind |-> "recall", ok |-> TRUE,
              results |-> Slice(SortStable(o.results), o.limit)]

\* remember without its conn.commit(): conn.close() rolls the INSERT back
\* and the call returns the id all the same.
CommitPageNever(p) ==
    /\ pc[p] = "commit"
    /\ wlock = p
    /\ wlock' = 0
    /\ exclusive' = FALSE
    /\ cache' = EmptyFile
    /\ journal' = EmptyFile
    /\ Return(p, Result(p))
    /\ UNCHANGED <<memory, ram_db, auto_sync, disk, ram, now, copying, seen, assigned,
                   stop_sync, closed, budget>>

\* conn.commit() of the lock holder: its changed pages go to the file in
\* page order, the last one releases the lock and the call returns.
CommitPage(p) ==
    /\ pc[p] = "commit"
    /\ wlock = p
    /\ LET n == MinOf(DirtyPages(ActiveFile, cache))
           new == WritePage(ActiveFile, n, cache)
       IN  /\ SetActive(new)
           /\ IF DirtyPages(new, cache) = {}
              THEN /\ wlock' = 0
                   /\ exclusive' = FALSE
                   /\ cache' = EmptyFile
                   /\ journal' = EmptyFile
                   /\ seen' = [t \in Threads |->
                                 IF pc[t] = "copy" THEN seen[t] \cup {new}
                                 ELSE seen[t]]
                   /\ Return(p, Result(p))
              ELSE /\ exclusive' = TRUE
                   /\ UNCHANGED <<wlock, cache, journal, seen, pc, op, ret>>
    /\ UNCHANGED <<memory, ram_db, auto_sync, now, copying, assigned, stop_sync, closed,
                   budget>>

(***************************************************************************)
(* recall                                                                  *)
(***************************************************************************)
\* recall(query, layer, limit) with its arguments drawn from the given
\* sets
RecallFor(p, queries, layers, limits) ==
    /\ pc[p] = "idle"
    /\ budget.recall > 0
    /\ \E query \in queries, layer \in layers, limit \in limits :
          op' = [op EXCEPT ![p] =
                   [kind |-> "recall", query |-> query, limit |-> limit,
                    layers |-> IF layer = NoLayer THEN Layers ELSE <<layer>>,
                    li |-> 1, pending |-> <<>>, results |-> <<>>,
                    t |-> NULL]]
    /\ pc' = [pc EXCEPT ![p] = "select"]
    /\ budget' = [budget EXCEPT !.recall = @ - 1]
    /\ UNCHANGED <<memory, ram_db, auto_sync, disk, ram, now, wlock, exclusive,
                   cache, journal, ret, copying, seen, assigned, stop_sync, closed>>

\* recall(query, layer, limit) with limit one of `limits`: nothing in
\* recall looks at the limit before it is bound to LIMIT ?.
RecallOf(p, limits) == RecallFor(p, Queries, RecallLayers, limits)

RecallCall(p) == RecallOf(p, Limits)

\* recall(query, limit=0) and recall(query, limit=-1)
RecallNonPositiveCall(p) == RecallOf(p, NonPositiveLimits)

\* Where recall goes once the rows of layer li are done with
AfterLayer(o) ==
    IF o.li < Len(o.layers) THEN "select" ELSE "commit"

NextLayer(o) ==
    IF o.li < Len(o.layers) THEN [o EXCEPT !.li = @ + 1] ELSE o

\* cursor.execute(SELECT ... MATCH ? ORDER BY relevance LIMIT ?) and
\* cursor.fetchall() on the next layer
RecallSelect(p) ==
    /\ pc[p] = "select"
    /\ ~Locked(p)
    /\ HasTables(ActiveFile)
    /\ LET o == op[p]
           rows == Search(View(p), o.layers[o.li], o.query, o.limit)
           got == [o EXCEPT !.pending = rows, !.results = @ \o rows]
       IN  IF ~QueryOK(o.query)
           THEN Return(p, [kind |-> "recall", ok |-> FALSE,
                           error |-> "syntax"])
           ELSE /\ ret' = ret
                /\ IF rows = <<>>
                   THEN /\ pc' = [pc EXCEPT ![p] = AfterLayer(o)]
                        /\ op' = [op EXCEPT ![p] = NextLayer(o)]
                   ELSE /\ pc' = [pc EXCEPT ![p] =
                                    IF wlock = p THEN "update" ELSE "time"]
                        /\ op' = [op EXCEPT ![p] = got]
    /\ UNCHANGED <<memory, ram_db, auto_sync, disk, ram, now, wlock, exclusive,
                   cache, journal, copying, seen, assigned, stop_sync, closed, budget>>

\* The rest of the loop over the fetched rows, after one UPDATE
AfterUpdate(p) ==
    LET o == [op[p] EXCEPT !.pending = Tail(@), !.t = NULL]
    IN  IF o.pending # <<>>
        THEN /\ pc' = [pc EXCEPT ![p] = "update"]
             /\ op' = [op EXCEPT ![p] = o]
        ELSE /\ pc' = [pc EXCEPT ![p] = AfterLayer(o)]
             /\ op' = [op EXCEPT ![p] = NextLayer(o)]

\* time.time() is evaluated before the first UPDATE of the call is
\* executed, and that UPDATE has to take the write lock.
RecallTime(p) ==
    /\ pc[p] = "time"
    /\ \E t \in TimeValues :
          /\ now' = t
          /\ op' = [op EXCEPT ![p].t = t]
    /\ pc' = [pc EXCEPT ![p] = "lock"]
    /\ UNCHANGED <<memory, ram_db, auto_sync, disk, ram, wlock, exclusive, cache, journal,
                   ret, copying, seen, assigned, stop_sync, closed, budget>>

\* An UPDATE that does not wait for the write lock another connection holds
RecallLockShared(p) ==
    /\ pc[p] = "lock"
    /\ wlock' = p
    /\ LET r == Head(op[p].pending)
       IN  cache' = UpdateAccess(ActiveFile, r.layer, r.id, op[p].t)
    /\ journal' = ActiveFile
    /\ AfterUpdate(p)
    /\ UNCHANGED <<memory, ram_db, auto_sync, disk, ram, now, exclusive, ret,
                   copying, seen, assigned, stop_sync, closed, budget>>

RecallLock(p) ==
    /\ pc[p] = "lock"
    /\ wlock = 0
    /\ wlock' = p
    /\ LET r == Head(op[p].pending)
       IN  cache' = UpdateAccess(ActiveFile, r.layer, r.id, op[p].t)
    /\ journal' = ActiveFile
    /\ AfterUpdate(p)
    /\ UNCHANGED <<memory, ram_db, auto_sync, disk, ram, now, exclusive, ret,
                   copying, seen, assigned, stop_sync, closed, budget>>

\* The later UPDATEs run inside the open transaction
RecallUpdate(p) ==
    /\ pc[p] = "update"
    /\ wlock = p
    /\ \E t \in TimeValues :
          /\ now' = t
          /\ LET r == Head(op[p].pending)
             IN  cache' = UpdateAccess(cache, r.layer, r.id, t)
    /\ AfterUpdate(p)
    /\ UNCHANGED journal
    /\ UNCHANGED <<memory, ram_db, auto_sync, disk, ram, wlock, exclusive, ret,
                   copying, seen, assigned, stop_sync, closed, budget>>

\* conn.commit() with no transaction open: no row matched
RecallReturn(p) ==
    /\ pc[p] = "commit"
    /\ wlock # p
    /\ Return(p, Result(p))
    /\ UNCHANGED <<memory, ram_db, auto_sync, disk, ram, now, wlock, exclusive,
                   cache, journal, copying, seen, assigned, stop_sync, closed, budget>>

(***************************************************************************)
(* A statement of remember or recall raises.                               *)
(***************************************************************************)
\* The holder of the write lock when it is a connection whose call has
\* raised: remember and recall have no try/finally, so the connection is
\* closed, and its transaction rolled back, only when it is collected.
Leaked == NCallers + 1

\* recall with a finally: conn.commit()
StorageErrorCommits(p) ==
    /\ p \in Callers
    /\ op[p].kind \in {"remember", "recall"}
    /\ pc[p] \in {"insert", "select", "lock", "update", "commit"}
    /\ ~exclusive
    /\ IF wlock = p
       THEN /\ SetActive(cache)
            /\ wlock' = 0
            /\ cache' = EmptyFile
            /\ journal' = EmptyFile
       ELSE UNCHANGED <<disk, ram, wlock, cache, journal>>
    /\ Return(p, [kind |-> op[p].kind, ok |-> FALSE, error |-> "storage",
                  held |-> wlock = p])
    /\ UNCHANGED <<memory, ram_db, auto_sync, now, exclusive, copying, seen, assigned,
                   stop_sync, closed, budget>>

\* cursor.execute or conn.commit raises sqlite3.Error (I/O error, disk
\* full, damaged table) before it has written anything to the file: the
\* exception goes to the caller, conn.commit() and conn.close() are not
\* reached.
StorageError(p) ==
    /\ p \in Callers
    /\ op[p].kind \in {"remember", "recall"}
    /\ pc[p] \in {"insert", "select", "lock", "update", "commit"}
    /\ ~exclusive
    /\ wlock' = IF wlock = p THEN Leaked ELSE wlock
    /\ Return(p, [kind |-> op[p].kind, ok |-> FALSE, error |-> "storage",
                  held |-> wlock = p])
    /\ UNCHANGED <<memory, ram_db, auto_sync, disk, ram, now, exclusive, cache, journal,
                   copying, seen, assigned, stop_sync, closed, budget>>

\* The connection of a call that raised is collected: sqlite3 closes it
\* and its open transaction is rolled back.
Collect ==
    /\ wlock = Leaked
    /\ wlock' = 0
    /\ cache' = EmptyFile
    /\ journal' = EmptyFile
    /\ UNCHANGED <<memory, ram_db, auto_sync, disk, ram, now, exclusive, pc, op, ret,
                   copying, seen, assigned, stop_sync, closed, budget>>

(***************************************************************************)
(* query_layer and get_stats                                               *)
(***************************************************************************)
\* A SELECT of a connection that holds no lock waits while another
\* connection writes its pages, and raises once the busy timeout is over.
ReadLocked == exclusive

\* query_layer(layer, limit): one SELECT on the active file, which sees
\* what is committed
QueryLayerOf(p, limits) ==
    /\ pc[p] = "idle"
    /\ \E layer \in QueryLayers, limit \in limits :
          ret' = [ret EXCEPT ![p] =
                    IF ~HasTables(ActiveFile)
                    THEN [kind |-> "query_layer", ok |-> FALSE,
                          layer |-> layer, limit |-> limit,
                          error |-> "no such table"]
                    ELSE IF ReadLocked
                    THEN [kind |-> "query_layer", ok |-> FALSE,
                          layer |-> layer, limit |-> limit,
                          error |-> "locked"]
                    ELSE [kind |-> "query_layer", ok |-> TRUE,
                          layer |-> layer, limit |-> limit,
                          results |-> QueryLayer(ActiveFile, layer, limit)]]
    /\ UNCHANGED <<memory, ram_db, auto_sync, disk, ram, now, wlock, exclusive, cache,
                   journal, pc, op, copying, seen, assigned, stop_sync, closed, budget>>

QueryLayerCall(p) == QueryLayerOf(p, Limits \cup NonPositiveLimits)

\* A query_layer that counts the access of the first row it returns
QueryLayerArgsTouches(p) ==
    /\ pc[p] = "idle"
    /\ HasTables(ActiveFile)
    /\ wlock = 0
    /\ \E layer \in QueryLayers, limit \in Limits, order_by \in OrderBys, where \in Wheres :
          LET rows == QueryLayerBy(ActiveFile, layer, limit, order_by, where)
          IN  /\ ret' = [ret EXCEPT ![p] =
                          [kind |-> "query_layer", ok |-> TRUE,
                           layer |-> layer, limit |-> limit,
                           order_by |-> order_by, where |-> where,
                           results |-> rows]]
              /\ SetActive(IF rows = <<>> THEN ActiveFile
                           ELSE UpdateAccess(ActiveFile, layer, rows[1].id, now))
    /\ UNCHANGED <<memory, ram_db, auto_sync, now, wlock, exclusive, cache,
                   journal, pc, op, copying, seen, assigned, stop_sync, closed, budget>>

\* query_layer(layer, limit, order_by, where)
QueryLayerArgsCall(p) ==
    /\ pc[p] = "idle"
    /\ HasTables(ActiveFile)
    /\ \E layer \in QueryLayers, limit \in Limits, order_by \in OrderBys, where \in Wheres :
          ret' = [ret EXCEPT ![p] =
                    IF ReadLocked
                    THEN [kind |-> "query_layer", ok |-> FALSE,
                          layer |-> layer, limit |-> limit,
                          error |-> "locked"]
                    ELSE [kind |-> "query_layer", ok |-> TRUE,
                          layer |-> layer, limit |-> limit,
                          order_by |-> order_by, where |-> where,
                          results |-> QueryLayerBy(ActiveFile, layer, limit,
                                                   order_by, where)]]
    /\ UNCHANGED <<memory, ram_db, auto_sync, disk, ram, now, wlock, exclusive, cache,
                   journal, pc, op, copying, seen, assigned, stop_sync, closed, budget>>

\* query_layer(layer, limit=3) and recall(query, limit=3)
QueryLayerAllCall(p) == QueryLayerOf(p, {MaxOf(Limits)})

RecallAllCall(p) == RecallOf(p, {MaxOf(Limits)})

\* recall("am", layer=MemoryLayer.EPISODIC, limit=3)
RecallEpisodicCall(p) == RecallFor(p, {TextAm}, {"episodic"}, {MaxOf(Limits)})

\* get_stats(): SELECTs on the active file
GetStatsCall(p) ==
    /\ pc[p] = "idle"
    /\ ret' = [ret EXCEPT ![p] =
                 IF ~HasTables(ActiveFile)
                 THEN [kind |-> "get_stats", ok |-> FALSE,
                       error |-> "no such table"]
                 ELSE IF ReadLocked
                 THEN [kind |-> "get_stats", ok |-> FALSE, error |-> "locked"]
                 ELSE [kind |-> "get_stats", ok |-> TRUE,
                       stats |-> GetStats(ActiveFile),
                       using_ram_disk |-> ram_db]]
    /\ UNCHANGED <<memory, ram_db, auto_sync, disk, ram, now, wlock, exclusive, cache,
                   journal, pc, op, copying, seen, assigned, stop_sync, closed, budget>>

\* The first statement of remember or recall on a file with no tables
\* raises OperationalError ('no such table').
NoSuchTable(p) ==
    /\ pc[p] \in {"insert", "select"}
    /\ ~HasTables(ActiveFile)
    /\ Return(p, [kind |-> op[p].kind, ok |-> FALSE,
                  error |-> "no such table"])
    /\ UNCHANGED <<memory, ram_db, auto_sync, disk, ram, now, wlock, exclusive,
                   cache, journal, copying, seen, assigned, stop_sync, closed, budget>>

\* The file of the active location goes away (the RAM disk is unmounted,
\* the file is deleted) while no call is in progress.
LoseActive ==
    /\ \A p \in Callers : pc[p] = "idle"
    /\ wlock = 0
    /\ HasTables(ActiveFile)
    /\ SetActive(NoTables)
    /\ UNCHANGED <<memory, ram_db, auto_sync, now, wlock, exclusive, cache, journal,
                   pc, op, ret, copying, seen, assigned, stop_sync, closed, budget>>

(***************************************************************************)
(* checkpoint, close, the auto-sync thread and _sync_ram_to_disk           *)
(***************************************************************************)
\* History kept with a checkpoint or close call: what the store held when
\* the call was made, how many calls were still to be made, whether no
\* other caller was in a call, and what the caller's call before returned.
Keys(file) ==
    UNION {{[layer |-> l, memory_id |-> file.mem[l].rows[i].id,
             content |-> file.mem[l].rows[i].content]
            : i \in 1..Len(file.mem[l].rows)} : l \in LayerSet}

\* The foreground calls still to be made
Calls(b) == <<b.remember, b.recall, b.checkpoint>>

Alone(p) == \A q \in Callers \ {p} : pc[q] = "idle"

AtCall(p, kind) ==
    [kind |-> kind, file |-> Committed, budget |-> budget,
     alone |-> Alone(p), before |-> ret[p]]

AtReturn(o, ok, file) ==
    [kind |-> o.kind, ok |-> ok, disk |-> file, file |-> o.file,
     budget |-> o.budget, alone |-> o.alone]

\* checkpoint without its test of self.ram_db
CheckpointCallAlwaysSyncs(p) ==
    /\ pc[p] = "idle"
    /\ budget.checkpoint > 0
    /\ budget' = [budget EXCEPT !.checkpoint = @ - 1]
    /\ pc' = [pc EXCEPT ![p] = "sync"]
    /\ op' = [op EXCEPT ![p] = AtCall(p, "checkpoint")]
    /\ UNCHANGED <<memory, ram_db, auto_sync, disk, ram, now, wlock, exclusive,
                   cache, journal, ret, copying, seen, assigned, stop_sync, closed>>

CheckpointCall(p) ==
    /\ pc[p] = "idle"
    /\ budget.checkpoint > 0
    /\ budget' = [budget EXCEPT !.checkpoint = @ - 1]
    /\ IF ram_db
       THEN /\ pc' = [pc EXCEPT ![p] = "sync"]
            /\ op' = [op EXCEPT ![p] = AtCall(p, "checkpoint")]
            /\ ret' = ret
       ELSE Return(p, AtReturn(AtCall(p, "checkpoint"), TRUE, disk))
    /\ UNCHANGED <<memory, ram_db, auto_sync, disk, ram, now, wlock, exclusive,
                   cache, journal, copying, seen, assigned, stop_sync, closed>>

Closing == \E q \in Callers : op[q].kind = "close"

CloseCall(p) ==
    /\ pc[p] = "idle"
    /\ ~closed
    /\ ~Closing
    /\ IF pc[SyncThread] # "none"
       THEN /\ stop_sync' = TRUE
            /\ pc' = [pc EXCEPT ![p] = "join"]
            /\ op' = [op EXCEPT ![p] = AtCall(p, "close")]
            /\ UNCHANGED <<ret, closed>>
       ELSE IF ram_db
            THEN /\ pc' = [pc EXCEPT ![p] = "sync"]
                 /\ op' = [op EXCEPT ![p] = AtCall(p, "close")]
                 /\ UNCHANGED <<ret, closed, stop_sync>>
            ELSE /\ Return(p, AtReturn(AtCall(p, "close"), TRUE, disk))
                 /\ closed' = TRUE
                 /\ UNCHANGED stop_sync
    /\ UNCHANGED <<memory, ram_db, auto_sync, disk, ram, now, wlock, exclusive,
                   cache, journal, copying, seen, assigned, budget>>

\* self._sync_thread.join(timeout=5): the thread has ended
CloseJoin(p) ==
    /\ pc[p] = "join"
    /\ pc[SyncThread] = "done"
    /\ pc' = [pc EXCEPT ![p] = "sync"]
    /\ UNCHANGED <<memory, ram_db, auto_sync, disk, ram, now, wlock, exclusive,
                   cache, journal, op, ret, copying, seen, assigned, stop_sync, closed, budget>>

\* A join() without its timeout: it returns when the thread has ended
CloseJoinWithoutTimeout(p) ==
    /\ pc[p] = "join"
    /\ pc[SyncThread] = "done"
    /\ pc' = [pc EXCEPT ![p] = "sync"]
    /\ UNCHANGED <<memory, ram_db, auto_sync, disk, ram, now, wlock, exclusive,
                   cache, journal, op, ret, copying, seen, assigned, stop_sync, closed, budget>>

\* self._sync_thread.join(timeout=5): the five seconds are over
CloseJoinTimeout(p) ==
    /\ pc[p] = "join"
    /\ pc[SyncThread] # "done"
    /\ pc' = [pc EXCEPT ![p] = "sync"]
    /\ UNCHANGED <<memory, ram_db, auto_sync, disk, ram, now, wlock, exclusive,
                   cache, journal, op, ret, copying, seen, assigned, stop_sync, closed, budget>>

\* A sync_loop whose wait does not look at the stop signal
WaitTimeoutIgnoresStop ==
    /\ pc[SyncThread] = "wait"
    /\ budget.passes # 0
    /\ budget' = [budget EXCEPT !.passes = IF @ = Unlimited THEN @ ELSE @ - 1]
    /\ pc' = [pc EXCEPT ![SyncThread] = "sync"]
    /\ UNCHANGED <<memory, ram_db, auto_sync, disk, ram, now, wlock, exclusive,
                   cache, journal, op, ret, copying, seen, assigned, stop_sync, closed>>

\* sync_loop: self._stop_sync.wait(self.sync_interval) returns False
WaitTimeout ==
    /\ pc[SyncThread] = "wait"
    /\ ~stop_sync
    /\ budget.passes # 0
    /\ budget' = [budget EXCEPT !.passes = IF @ = Unlimited THEN @ ELSE @ - 1]
    /\ pc' = [pc EXCEPT ![SyncThread] = "sync"]
    /\ UNCHANGED <<memory, ram_db, auto_sync, disk, ram, now, wlock, exclusive,
                   cache, journal, op, ret, copying, seen, assigned, stop_sync, closed>>

\* sync_loop: self._stop_sync.wait(self.sync_interval) returns True
WaitStopped ==
    /\ pc[SyncThread] = "wait"
    /\ stop_sync
    /\ pc' = [pc EXCEPT ![SyncThread] = "done"]
    /\ UNCHANGED <<memory, ram_db, auto_sync, disk, ram, now, wlock, exclusive,
                   cache, journal, op, ret, copying, seen, assigned, stop_sync, closed, budget>>

\* _sync_ram_to_disk is over in thread t, normally (ok) or by an
\* exception; file is what it leaves on disk.
SyncEnd(t, ok, file) ==
    /\ copying' = [copying EXCEPT ![t] = 0]
    /\ seen' = [seen EXCEPT ![t] = {}]
    /\ IF t = SyncThread
       THEN /\ pc' = [pc EXCEPT ![t] = "wait"]
            /\ UNCHANGED <<op, ret, closed>>
       ELSE /\ Return(t, AtReturn(op[t], ok, file))
            /\ closed' = (closed \/ (ok /\ op[t].kind = "close"))

\* shutil.copy2(self.ram_db, self.disk_db) writes the tables from..to (both
\* pages of each); the copy is not atomic: it reads each chunk of the
\* source as it is when the chunk is reached.
CopyPages(t, dst, from) ==
    \E to \in from..Len(Layers) :
        LET file == WritePages(dst, ram, 2 * from - 1, 2 * to)
        IN  /\ disk' = file
            /\ IF to = Len(Layers)
               THEN SyncEnd(t, TRUE, file)
               ELSE /\ copying' = [copying EXCEPT ![t] = to + 1]
                    /\ seen' = [seen EXCEPT ![t] =
                                  IF pc[t] = "sync" THEN {Committed} ELSE @]
                    /\ pc' = [pc EXCEPT ![t] = "copy"]
                    /\ UNCHANGED <<op, ret, closed>>

\* A pass that calls _sync_disk_to_ram where the code calls
\* _sync_ram_to_disk
SyncDiskToRam(t) ==
    /\ pc[t] = "sync"
    /\ ram' = disk
    /\ SyncEnd(t, TRUE, disk)
    /\ UNCHANGED <<memory, ram_db, auto_sync, disk, now, wlock, exclusive, cache,
                   journal, assigned, stop_sync, budget>>

\* _sync_ram_to_disk: opening the destination truncates it
SyncRamToDisk(t) ==
    /\ pc[t] = "sync"
    /\ CopyPages(t, EmptyFile, 1)
    /\ UNCHANGED <<memory, ram_db, auto_sync, ram, now, wlock, exclusive, cache,
                   journal, assigned, stop_sync, budget>>

CopyChunk(t) ==
    /\ pc[t] = "copy"
    /\ CopyPages(t, disk, copying[t])
    /\ UNCHANGED <<memory, ram_db, auto_sync, ram, now, wlock, exclusive, cache,
                   journal, assigned, stop_sync, budget>>

\* sync_loop without its try/except: a pass that raises ends the thread.
CopyFailEndsLoop(t) ==
    /\ pc[t] = "copy"
    /\ copying' = [copying EXCEPT ![t] = 0]
    /\ seen' = [seen EXCEPT ![t] = {}]
    /\ pc' = [pc EXCEPT ![t] = "done"]
    /\ UNCHANGED <<memory, ram_db, auto_sync, disk, ram, now, wlock, exclusive,
                   cache, journal, op, ret, assigned, stop_sync, closed,
                   budget>>

\* The copy raises (I/O error, disk full): what it has written stays.
CopyFail(t) ==
    /\ pc[t] = "copy"
    /\ SyncEnd(t, FALSE, disk)
    /\ UNCHANGED <<memory, ram_db, auto_sync, disk, ram, now, wlock, exclusive,
                   cache, journal, assigned, stop_sync, budget>>

(***************************************************************************)
(* The process ends with no call in progress and a new coordinator is      *)
(* constructed on the same locations.                                      *)
(***************************************************************************)
Restart ==
    /\ \A p \in Callers : pc[p] = "idle"
    /\ budget.restart > 0
    /\ budget' = [budget EXCEPT !.restart = @ - 1]
    /\ \E mirrored \in BOOLEAN :
          \E auto \in (IF mirrored THEN BOOLEAN ELSE {TRUE}) :
              Construct(mirrored, auto, disk)
    /\ UNCHANGED <<memory, now, assigned>>

(***************************************************************************)
(* The adapter (mcp_server.py): call_tool, whose calls are made one at a   *)
(* time.                                                                   *)
(***************************************************************************)
ToolNames == {"remember", "recall", "query_layer", "get_status", "checkpoint"}

UnknownName == "bogus"

\* get_memory() on the first call_tool: CascadeMemory(disk_path, ram_path)
\* with auto_sync at its default, in MIRRORED state iff
\* get_cascade_ramdisk_path() finds a RAM disk
GetMemory ==
    /\ ~memory
    /\ \A p \in Callers : pc[p] = "idle"
    /\ memory' = TRUE
    /\ \E mirrored \in BOOLEAN : Construct(mirrored, TRUE, disk)
    /\ UNCHANGED <<now, assigned, budget>>

\* get_memory() on the first call_tool: the constructor raises (a location
\* that cannot be created, opened or written).  The call of get_memory is
\* before call_tool's try.
GetMemoryRaises(p) ==
    /\ ~memory
    /\ pc[p] = "idle"
    /\ Alone(p)
    /\ ret' = [ret EXCEPT ![p] =
                 [kind |-> "call_tool", raised |-> TRUE, error |-> "storage"]]
    /\ UNCHANGED <<memory, ram_db, auto_sync, disk, ram, now, wlock, exclusive, cache,
                   journal, pc, op, copying, seen, assigned, stop_sync, closed, budget>>

\* call_tool with a name that is no tool (the else branch), or with a
\* layer that is no MemoryLayer (ValueError, caught by except Exception)
CallToolRejected(p) ==
    /\ memory
    /\ pc[p] = "idle"
    /\ Alone(p)
    /\ \E name \in {UnknownName, "remember", "recall", "query_layer"} :
          ret' = [ret EXCEPT ![p] =
                    [kind |-> "call_tool", raised |-> FALSE, name |-> name,
                     success |-> FALSE,
                     error |-> IF name \in ToolNames
                               THEN "not a valid MemoryLayer"
                               ELSE "Unknown tool"]]
    /\ UNCHANGED <<memory, ram_db, auto_sync, disk, ram, now, wlock, exclusive, cache,
                   journal, pc, op, copying, seen, assigned, stop_sync, closed, budget>>

\* call_tool("remember", ...) and call_tool("get_status", {})
CallToolRemember(p) == memory /\ Alone(p) /\ RememberOneCall(p)

CallToolStatus(p) == memory /\ Alone(p) /\ GetStatsCall(p)

\* result of call_tool for what the core call returned or raised
ToolResult(r) ==
    IF r.kind = "call_tool" THEN r
    ELSE IF r.ok THEN [kind |-> "call_tool", raised |-> FALSE, name |-> r.kind,
                       success |-> TRUE]
    ELSE [kind |-> "call_tool", raised |-> FALSE, name |-> r.kind,
          success |-> FALSE, error |-> r.error]

\* A new coordinator after close() has returned
Reopen == closed /\ Restart

\* remember on a coordinator that is not closed or being closed
RememberWhileOpen(p) == ~closed /\ ~Closing /\ RememberCall(p)

\* close() called while no other caller is in a call
CloseWhenAlone(p) == Alone(p) /\ CloseCall(p)

Next ==
    \/ \E p \in Callers : RememberCall(p)
    \/ \E p \in Callers : RememberInsert(p)
    \/ \E p \in Callers : Busy(p)
    \/ \E p \in Callers : CommitPage(p)
    \/ \E p \in Callers : RecallCall(p)
    \/ \E p \in Callers : RecallSelect(p)
    \/ \E p \in Callers : RecallTime(p)
    \/ \E p \in Callers : RecallLock(p)
    \/ \E p \in Callers : RecallUpdate(p)
    \/ \E p \in Callers : RecallReturn(p)
    \/ \E p \in Callers : CheckpointCall(p)
    \/ \E p \in Callers : CloseCall(p)
    \/ \E p \in Callers : CloseJoin(p)
    \/ \E p \in Callers : CloseJoinTimeout(p)
    \/ WaitTimeout
    \/ WaitStopped
    \/ \E t \in Threads : SyncRamToDisk(t)
    \/ \E t \in Threads : CopyChunk(t)
    \/ \E t \in Threads : CopyFail(t)
    \/ Restart

Init ==
    Start(BOOLEAN, BOOLEAN, {EmptyFile},
          [remember |-> 1, recall |-> 1, checkpoint |-> 1, passes |-> 1,
           restart |-> 1])

Spec == Init /\ [][Next]_vars

NoBudget == [remember |-> 0, recall |-> 0, checkpoint |-> 0, passes |-> 0,
             restart |-> 0]

(***************************************************************************)
(* Concurrent remember calls, in both states, with the auto-sync thread.   *)
(***************************************************************************)
InitRemember ==
    Start(BOOLEAN, BOOLEAN, {EmptyFile},
          [NoBudget EXCEPT !.remember = MaxRemember, !.passes = MaxPasses])

NextRemember ==
    \/ \E p \in Callers : RememberCall(p)
    \/ \E p \in Callers : RememberInsert(p)
    \/ \E p \in Callers : Busy(p)
    \/ \E p \in Callers : CommitPage(p)
    \/ WaitTimeout
    \/ \E t \in Threads : SyncRamToDisk(t)
    \/ \E t \in Threads : CopyChunk(t)
    \/ \E t \in Threads : CopyFail(t)

SpecRemember == InitRemember /\ [][NextRemember]_vars

(***************************************************************************)
(* MIRRORED: one remember and checkpoint calls with the auto-sync thread.  *)
(***************************************************************************)
InitCheckpoint ==
    Start({TRUE}, BOOLEAN, {EmptyFile},
          [NoBudget EXCEPT !.remember = 1,
                           !.checkpoint = MaxCheckpoint,
                           !.passes = MaxPasses])

NextCheckpoint ==
    \/ \E p \in Callers : RememberCall(p)
    \/ \E p \in Callers : RememberInsert(p)
    \/ \E p \in Callers : CommitPage(p)
    \/ \E p \in Callers : CheckpointCall(p)
    \/ WaitTimeout
    \/ \E t \in Threads : SyncRamToDisk(t)
    \/ \E t \in Threads : CopyChunk(t)
    \/ \E t \in Threads : CopyFail(t)

SpecCheckpoint == InitCheckpoint /\ [][NextCheckpoint]_vars

(***************************************************************************)
(* MIRRORED with the auto-sync thread: remember calls, the timer keeps     *)
(* firing, and a pass that has started is eventually completed.            *)
(***************************************************************************)
InitLive ==
    Start({TRUE}, {TRUE}, {EmptyFile},
          [NoBudget EXCEPT !.remember = MaxRemember, !.passes = Unlimited])

NextLive ==
    \/ \E p \in Callers : RememberCall(p)
    \/ \E p \in Callers : RememberInsert(p)
    \/ \E p \in Callers : Busy(p)
    \/ \E p \in Callers : CommitPage(p)
    \/ WaitTimeout
    \/ SyncRamToDisk(SyncThread)
    \/ CopyChunk(SyncThread)
    \/ CopyFail(SyncThread)

\* The auto-sync thread's pass writes its last chunk in this step.
PassSucceeds ==
    /\ SyncRamToDisk(SyncThread) \/ CopyChunk(SyncThread)
    /\ pc'[SyncThread] = "wait"

SpecLive ==
    /\ InitLive
    /\ [][NextLive]_vars
    /\ WF_vars(WaitTimeout)
    /\ SF_vars(PassSucceeds)

(***************************************************************************)
(* MIRRORED with the auto-sync thread: remember calls, close(), a new      *)
(* coordinator on the same durable location, and remember calls on it.     *)
(* No call is made while close() runs, nor between close() and the new     *)
(* coordinator.                                                            *)
(***************************************************************************)
InitReopen ==
    Start({TRUE}, {TRUE}, {EmptyFile},
          [NoBudget EXCEPT !.remember = MaxRemember,
                           !.passes = MaxPasses,
                           !.restart = 1])

NextReopen ==
    \/ \E p \in Callers : RememberWhileOpen(p)
    \/ \E p \in Callers : RememberInsert(p)
    \/ \E p \in Callers : Busy(p)
    \/ \E p \in Callers : CommitPage(p)
    \/ \E p \in Callers : CloseWhenAlone(p)
    \/ \E p \in Callers : CloseJoin(p)
    \/ \E p \in Callers : CloseJoinTimeout(p)
    \/ WaitTimeout
    \/ WaitStopped
    \/ \E t \in Threads : SyncRamToDisk(t)
    \/ \E t \in Threads : CopyChunk(t)
    \/ Reopen

SpecReopen == InitReopen /\ [][NextReopen]_vars

(***************************************************************************)
(* The classifier applied to texts, by one caller.                         *)
(***************************************************************************)
InitClassify == Start(BOOLEAN, {TRUE}, {EmptyFile}, NoBudget)

NextClassify == DetermineLayerCall(MinOf(Callers))

SpecClassify == InitClassify /\ [][NextClassify]_vars

(***************************************************************************)
(* DISK_ONLY: remember calls, then a new coordinator on the same durable   *)
(* location, in either state, with no close() or checkpoint() before it.   *)
(***************************************************************************)
InitDisk ==
    Start({FALSE}, {TRUE}, {EmptyFile},
          [NoBudget EXCEPT !.remember = MaxRemember, !.restart = 1])

NextDisk ==
    \/ \E p \in Callers : RememberCall(p)
    \/ \E p \in Callers : RememberInsert(p)
    \/ \E p \in Callers : Busy(p)
    \/ \E p \in Callers : CommitPage(p)
    \/ Restart

SpecDisk == InitDisk /\ [][NextDisk]_vars

(***************************************************************************)
(* Either state, no auto-sync thread: remember calls with empty and with   *)
(* non-empty content.                                                      *)
(***************************************************************************)
InitEmpty ==
    Start(BOOLEAN, {FALSE}, {EmptyFile},
          [NoBudget EXCEPT !.remember = MaxRemember])

NextEmpty ==
    \/ \E p \in Callers : RememberEmptyCall(p)
    \/ \E p \in Callers : RememberInsert(p)
    \/ \E p \in Callers : Busy(p)
    \/ \E p \in Callers : CommitPage(p)

SpecEmpty == InitEmpty /\ [][NextEmpty]_vars

(***************************************************************************)
(* Concurrent recall calls on a store that holds four records.             *)
(***************************************************************************)
\* The store after remember("am", layer=EPISODIC) and remember("I am")
TwoRecords ==
    InsertRow(InsertRow(EmptyFile, "episodic", TextAm, 1, 5, 5, <<>>, <<>>),
              DetermineLayer(TextIAm, <<>>), TextIAm, 1, 5, 5, <<>>, <<>>)

\* ... and remember("a-m", layer=SEMANTIC), remember("am", layer=SEMANTIC)
StoredRecords ==
    InsertRow(InsertRow(TwoRecords, "semantic", TextBad, 1, 5, 5, <<>>, <<>>),
              "semantic", TextAm, 1, 5, 5, <<>>, <<>>)

InitRecall ==
    Start(BOOLEAN, {FALSE}, {StoredRecords},
          [NoBudget EXCEPT !.recall = MaxRecall])

NextRecall ==
    \/ \E p \in Callers : RecallCall(p)
    \/ \E p \in Callers : RecallSelect(p)
    \/ \E p \in Callers : RecallTime(p)
    \/ \E p \in Callers : RecallLock(p)
    \/ \E p \in Callers : RecallUpdate(p)
    \/ \E p \in Callers : RecallReturn(p)
    \/ \E p \in Callers : Busy(p)
    \/ \E p \in Callers : CommitPage(p)

SpecRecall == InitRecall /\ [][NextRecall]_vars

(***************************************************************************)
(* One recall call with a limit of zero or less, and query_layer calls,    *)
(* on the same store.                                                      *)
(***************************************************************************)
InitLimit ==
    Start(BOOLEAN, {FALSE}, {StoredRecords}, [NoBudget EXCEPT !.recall = 1])

NextLimit ==
    \/ \E p \in Callers : RecallNonPositiveCall(p)
    \/ \E p \in Callers : RecallSelect(p)
    \/ \E p \in Callers : RecallTime(p)
    \/ \E p \in Callers : RecallLock(p)
    \/ \E p \in Callers : RecallUpdate(p)
    \/ \E p \in Callers : RecallReturn(p)
    \/ \E p \in Callers : CommitPage(p)
    \/ \E p \in Callers : QueryLayerCall(p)

SpecLimit == InitLimit /\ [][NextLimit]_vars

(***************************************************************************)
(* A remember and a recall on a store that holds four records, with        *)
(* statements that raise.                                                  *)
(***************************************************************************)
InitFail ==
    Start(BOOLEAN, {FALSE}, {StoredRecords},
          [NoBudget EXCEPT !.remember = 1, !.recall = 1])

NextFail ==
    \/ \E p \in Callers : RememberCall(p)
    \/ \E p \in Callers : RememberInsert(p)
    \/ \E p \in Callers : RecallCall(p)
    \/ \E p \in Callers : RecallSelect(p)
    \/ \E p \in Callers : RecallTime(p)
    \/ \E p \in Callers : RecallLock(p)
    \/ \E p \in Callers : RecallUpdate(p)
    \/ \E p \in Callers : RecallReturn(p)
    \/ \E p \in Callers : Busy(p)
    \/ \E p \in Callers : CommitPage(p)
    \/ \E p \in Callers : StorageError(p)
    \/ Collect

SpecFail == InitFail /\ [][NextFail]_vars

(***************************************************************************)
(* Either state, no auto-sync thread: a remember, a recall, query_layer    *)
(* and get_stats calls on a store that holds four records, and the file of *)
(* the active location goes away.                                          *)
(***************************************************************************)
InitTier ==
    Start(BOOLEAN, {FALSE}, {StoredRecords},
          [NoBudget EXCEPT !.remember = 1, !.recall = 1])

NextTier ==
    \/ \E p \in Callers : RememberCall(p)
    \/ \E p \in Callers : RememberInsert(p)
    \/ \E p \in Callers : RecallAllCall(p)
    \/ \E p \in Callers : RecallSelect(p)
    \/ \E p \in Callers : RecallTime(p)
    \/ \E p \in Callers : RecallLock(p)
    \/ \E p \in Callers : RecallUpdate(p)
    \/ \E p \in Callers : RecallReturn(p)
    \/ \E p \in Callers : Busy(p)
    \/ \E p \in Callers : CommitPage(p)
    \/ \E p \in Callers : NoSuchTable(p)
    \/ \E p \in Callers : QueryLayerAllCall(p)
    \/ \E p \in Callers : GetStatsCall(p)
    \/ LoseActive

SpecTier == InitTier /\ [][NextTier]_vars

(***************************************************************************)
(* DISK_ONLY, constructed with auto_sync=True: remember calls,             *)
(* checkpoint() and close().                                               *)
(***************************************************************************)
InitNoSync ==
    Start({FALSE}, {TRUE}, {EmptyFile},
          [NoBudget EXCEPT !.remember = MaxRemember,
                           !.checkpoint = MaxCheckpoint])

NextNoSync ==
    \/ \E p \in Callers : RememberCall(p)
    \/ \E p \in Callers : RememberInsert(p)
    \/ \E p \in Callers : Busy(p)
    \/ \E p \in Callers : CommitPage(p)
    \/ \E p \in Callers : CheckpointCall(p)
    \/ \E p \in Callers : CloseCall(p)

SpecNoSync == InitNoSync /\ [][NextNoSync]_vars

(***************************************************************************)
(* query_layer with its arguments and get_stats, with one recall, on a     *)
(* store whose semantic category holds records of different timestamps.    *)
(***************************************************************************)
\* The store after two remember("am", layer=SEMANTIC) calls of which the
\* later one inserted first, and a third
DatedRecords ==
    InsertRow(InsertRow(InsertRow(TwoRecords,
                  "semantic", TextAm, 2, 5, 5, <<>>, <<>>),
                  "semantic", TextBad, 1, 5, 5, <<>>, <<>>),
                  "semantic", TextAm, 2, 5, 5, <<>>, <<>>)

InitList ==
    Start(BOOLEAN, {FALSE}, {DatedRecords}, [NoBudget EXCEPT !.recall = 1])

NextList ==
    \/ \E p \in Callers : RecallAllCall(p)
    \/ \E p \in Callers : RecallSelect(p)
    \/ \E p \in Callers : RecallTime(p)
    \/ \E p \in Callers : RecallLock(p)
    \/ \E p \in Callers : RecallUpdate(p)
    \/ \E p \in Callers : RecallReturn(p)
    \/ \E p \in Callers : CommitPage(p)
    \/ \E p \in Callers : QueryLayerArgsCall(p)
    \/ \E p \in Callers : GetStatsCall(p)

SpecList == InitList /\ [][NextList]_vars

(***************************************************************************)
(* MIRRORED, no auto-sync thread: get_stats among a remember, a            *)
(* recall, a checkpoint and query_layer calls on a store that was          *)
(* constructed on two records.  No call waits for a lock longer than the   *)
(* busy timeout.                                                           *)
(***************************************************************************)
InitStats ==
    Start({TRUE}, {FALSE}, {TwoRecords},
          [NoBudget EXCEPT !.remember = 1, !.recall = 1, !.checkpoint = 1])

NextStats ==
    \/ \E p \in Callers : RememberOneCall(p)
    \/ \E p \in Callers : RememberInsert(p)
    \/ \E p \in Callers : RecallAllCall(p)
    \/ \E p \in Callers : RecallSelect(p)
    \/ \E p \in Callers : RecallTime(p)
    \/ \E p \in Callers : RecallLock(p)
    \/ \E p \in Callers : RecallUpdate(p)
    \/ \E p \in Callers : RecallReturn(p)
    \/ \E p \in Callers : CommitPage(p)
    \/ \E p \in Callers : CheckpointCall(p)
    \/ \E p \in Callers : SyncRamToDisk(p)
    \/ \E p \in Callers : CopyChunk(p)
    \/ \E p \in Callers : QueryLayerAllCall(p)
    \/ \E p \in Callers : GetStatsCall(p)

SpecStats == InitStats /\ [][NextStats]_vars

(***************************************************************************)
(* The adapter from its first call_tool on, before the first tick of the   *)
(* auto-sync thread: remember and get_status tools, rejected calls, and    *)
(* statements of remember that raise.                                      *)
(***************************************************************************)
InitAdapter ==
    Start({FALSE}, {TRUE}, {EmptyFile, TwoRecords},
          [NoBudget EXCEPT !.remember = MaxRemember])

NextAdapter ==
    \/ GetMemory
    \/ \E p \in Callers : GetMemoryRaises(p)
    \/ \E p \in Callers : CallToolRejected(p)
    \/ \E p \in Callers : CallToolRemember(p)
    \/ \E p \in Callers : RememberInsert(p)
    \/ \E p \in Callers : CommitPage(p)
    \/ \E p \in Callers : StorageError(p)
    \/ Collect
    \/ \E p \in Callers : CallToolStatus(p)

SpecAdapter == InitAdapter /\ [][NextAdapter]_vars

(***************************************************************************)
(* MIRRORED with the auto-sync thread, whose timer keeps firing: a         *)
(* remember and a recall on a store constructed on two records.  The       *)
(* callers that are in a call are scheduled again and again.               *)
(***************************************************************************)
InitNoWait ==
    Start({TRUE}, {TRUE}, {TwoRecords},
          [NoBudget EXCEPT !.remember = 1, !.recall = 1, !.passes = Unlimited])

\* A statement of caller p's call that does not raise
Proceeds(p) ==
    \/ RememberInsert(p)
    \/ RecallSelect(p)
    \/ RecallTime(p)
    \/ RecallLock(p)
    \/ RecallUpdate(p)
    \/ RecallReturn(p)
    \/ CommitPage(p)

NextNoWait ==
    \/ \E p \in Callers : RememberOneCall(p)
    \/ \E p \in Callers : RecallAllCall(p)
    \/ \E p \in Callers : Proceeds(p)
    \/ \E p \in Callers : Busy(p)
    \/ WaitTimeout
    \/ SyncRamToDisk(SyncThread)
    \/ CopyChunk(SyncThread)
    \/ CopyFail(SyncThread)

\* Caller p is in a call whose next statement can be executed now, or
\* gives up on a lock: the conditions under which Proceeds(p) or Busy(p)
\* is enabled.
CanProceed(p) ==
    \/ Locked(p)
    \/ pc[p] = "insert" /\ wlock = 0 /\ HasTables(ActiveFile)
    \/ pc[p] = "select" /\ ~Locked(p) /\ HasTables(ActiveFile)
    \/ pc[p] = "time"
    \/ pc[p] = "lock" /\ wlock = 0
    \/ pc[p] = "update" /\ wlock = p
    \/ pc[p] = "commit" /\ (wlock = p => DirtyPages(ActiveFile, cache) # {})

\* The thread of caller p is scheduled again and again: weak fairness of
\* its steps, with the enabling condition written out.
Foreground(p) ==
    \/ []<>(~CanProceed(p))
    \/ []<><<Proceeds(p) \/ Busy(p)>>_vars

SpecNoWait ==
    /\ InitNoWait
    /\ [][NextNoWait]_vars
    /\ \A p \in Callers : Foreground(p)

(***************************************************************************)
(* Coordinators without auto-sync, constructed one after the other on the  *)
(* same two locations, in either state: what a remember leaves in the fast *)
(* file is never reconciled, and the fast file is left as it is while a    *)
(* DISK_ONLY coordinator runs.                                             *)
(***************************************************************************)
MaxRestart == 2

InitHydrate ==
    Start(BOOLEAN, {FALSE}, {EmptyFile, TwoRecords},
          [NoBudget EXCEPT !.remember = MaxRemember, !.restart = MaxRestart])

\* The process is ended and a coordinator without auto-sync is constructed
RestartWithoutAutoSync == Restart /\ ~(auto_sync' /\ ram_db')

NextHydrate ==
    \/ \E p \in Callers : RememberOneCall(p)
    \/ \E p \in Callers : RememberInsert(p)
    \/ \E p \in Callers : Busy(p)
    \/ \E p \in Callers : CommitPage(p)
    \/ RestartWithoutAutoSync

SpecHydrate == InitHydrate /\ [][NextHydrate]_vars

(***************************************************************************)
(* MIRRORED with the auto-sync thread, on two records: every operation of  *)
(* the coordinator, one remember, one recall, one checkpoint, one          *)
(* scheduled pass and close().  The calls are made by one thread, while    *)
(* the auto-sync thread runs.                                              *)
(***************************************************************************)
InitOneWay ==
    Start({TRUE}, {TRUE}, {TwoRecords},
          [NoBudget EXCEPT !.remember = 1, !.recall = 1, !.checkpoint = 1,
                           !.passes = MaxPasses])

\* The one thread that makes the calls
Caller == 1

NextOneWay ==
    \/ RememberOneCall(Caller)
    \/ RecallEpisodicCall(Caller)
    \/ QueryLayerAllCall(Caller)
    \/ GetStatsCall(Caller)
    \/ CheckpointCall(Caller)
    \/ CloseCall(Caller)
    \/ \E p \in Callers : RememberInsert(p)
    \/ \E p \in Callers : RecallSelect(p)
    \/ \E p \in Callers : RecallTime(p)
    \/ \E p \in Callers : RecallLock(p)
    \/ \E p \in Callers : RecallUpdate(p)
    \/ \E p \in Callers : CommitPage(p)
    \/ \E p \in Callers : CloseJoin(p)
    \/ \E p \in Callers : CloseJoinTimeout(p)
    \/ WaitTimeout
    \/ WaitStopped
    \/ \E t \in Threads : SyncRamToDisk(t)
    \/ \E t \in Threads : CopyChunk(t)
    \/ \E t \in Threads : CopyFail(t)

SpecOneWay == InitOneWay /\ [][NextOneWay]_vars

(***************************************************************************)
(* MIRRORED with the auto-sync thread, whose timer keeps firing: a         *)
(* remember and close().  The auto-sync thread is scheduled again and      *)
(* again: it leaves its wait when the signal is set, and a copy it has     *)
(* begun goes on until it is completed or raises.                          *)
(***************************************************************************)
InitStop ==
    Start({TRUE}, {TRUE}, {EmptyFile},
          [NoBudget EXCEPT !.remember = 1, !.passes = Unlimited])

NextStop ==
    \/ \E p \in Callers : RememberOneCall(p)
    \/ \E p \in Callers : RememberInsert(p)
    \/ \E p \in Callers : CommitPage(p)
    \/ \E p \in Callers : CloseCall(p)
    \/ \E p \in Callers : CloseJoin(p)
    \/ \E p \in Callers : CloseJoinTimeout(p)
    \/ WaitTimeout
    \/ WaitStopped
    \/ \E t \in Threads : SyncRamToDisk(t)
    \/ \E t \in Threads : CopyChunk(t)
    \/ \E t \in Threads : CopyFail(t)

\* A step of the pass the auto-sync thread is in
ScheduledPassStep ==
    \/ SyncRamToDisk(SyncThread)
    \/ CopyChunk(SyncThread)
    \/ CopyFail(SyncThread)

SpecStop ==
    /\ InitStop
    /\ [][NextStop]_vars
    /\ WF_vars(WaitStopped)
    /\ WF_vars(ScheduledPassStep)

(***************************************************************************)
(* MIRRORED with the auto-sync thread: a remember and close().  The thread *)
(* that called close() is scheduled again and again; nothing is assumed of *)
(* the auto-sync thread, which may stay in its wait or inside a pass for   *)
(* ever.                                                                   *)
(***************************************************************************)
InitShutdown ==
    Start({TRUE}, {TRUE}, {EmptyFile},
          [NoBudget EXCEPT !.remember = 1, !.passes = MaxPasses])

NextShutdown ==
    \/ \E p \in Callers : RememberOneCall(p)
    \/ \E p \in Callers : RememberInsert(p)
    \/ \E p \in Callers : CommitPage(p)
    \/ \E p \in Callers : CloseCall(p)
    \/ \E p \in Callers : CloseJoin(p)
    \/ \E p \in Callers : CloseJoinTimeout(p)
    \/ WaitTimeout
    \/ WaitStopped
    \/ \E t \in Threads : SyncRamToDisk(t)
    \/ \E t \in Threads : CopyChunk(t)
    \/ \E t \in Threads : CopyFail(t)

\* A step of close() in the thread of caller p
CloseStep(p) ==
    \/ CloseJoin(p)
    \/ CloseJoinTimeout(p)
    \/ p \in Callers /\ (SyncRamToDisk(p) \/ CopyChunk(p) \/ CopyFail(p))

SpecShutdown ==
    /\ InitShutdown
    /\ [][NextShutdown]_vars
    /\ \A p \in Callers : WF_vars(CloseStep(p))

(***************************************************************************)
(* Either state, no auto-sync thread, on two records: a remember and a     *)
(* recall that run together, some of whose statements raise, and the       *)
(* other operations, made by one thread.                                   *)
(***************************************************************************)
InitImmutable ==
    Start(BOOLEAN, {FALSE}, {TwoRecords},
          [NoBudget EXCEPT !.remember = 1, !.recall = 1, !.checkpoint = 1])

NextImmutable ==
    \/ \E p \in Callers : RememberOneCall(p)
    \/ \E p \in Callers : RecallEpisodicCall(p)
    \/ \E p \in Callers : RememberInsert(p)
    \/ \E p \in Callers : RecallSelect(p)
    \/ \E p \in Callers : RecallTime(p)
    \/ \E p \in Callers : RecallLock(p)
    \/ \E p \in Callers : RecallUpdate(p)
    \/ \E p \in Callers : CommitPage(p)
    \/ \E p \in Callers : Busy(p)
    \/ \E p \in Callers : StorageError(p)
    \/ Collect
    \/ QueryLayerAllCall(Caller)
    \/ GetStatsCall(Caller)
    \/ CheckpointCall(Caller)
    \/ CloseCall(Caller)
    \/ SyncRamToDisk(Caller)
    \/ CopyChunk(Caller)

SpecImmutable == InitImmutable /\ [][NextImmutable]_vars

(***************************************************************************)
(* Either state, no auto-sync thread, on four records: recall calls that   *)
(* overlap, each called while the one before is still in progress.         *)
(***************************************************************************)
InitOverlap ==
    Start(BOOLEAN, {FALSE}, {StoredRecords},
          [NoBudget EXCEPT !.recall = MaxRecall])

\* recall called first, or while another caller is in its call
RecallOverlappingCall(p) ==
    /\ budget.recall = MaxRecall \/ ~Alone(p)
    /\ RecallCall(p)

NextOverlap ==
    \/ \E p \in Callers : RecallOverlappingCall(p)
    \/ \E p \in Callers : RecallSelect(p)
    \/ \E p \in Callers : RecallTime(p)
    \/ \E p \in Callers : RecallLock(p)
    \/ \E p \in Callers : RecallUpdate(p)
    \/ \E p \in Callers : RecallReturn(p)
    \/ \E p \in Callers : Busy(p)
    \/ \E p \in Callers : CommitPage(p)

SpecOverlap == InitOverlap /\ [][NextOverlap]_vars

(***************************************************************************)
(* Either state: a remember, close() with the auto-sync thread, and a new  *)
(* coordinator on the same durable location.                               *)
(***************************************************************************)
InitClose ==
    Start(BOOLEAN, BOOLEAN, {EmptyFile},
          [NoBudget EXCEPT !.remember = 1,
                           !.passes = MaxPasses,
                           !.restart = 1])

NextClose ==
    \/ \E p \in Callers : RememberCall(p)
    \/ \E p \in Callers : RememberInsert(p)
    \/ \E p \in Callers : CommitPage(p)
    \/ \E p \in Callers : CloseCall(p)
    \/ \E p \in Callers : CloseJoin(p)
    \/ \E p \in Callers : CloseJoinTimeout(p)
    \/ WaitTimeout
    \/ WaitStopped
    \/ \E t \in Threads : SyncRamToDisk(t)
    \/ \E t \in Threads : CopyChunk(t)
    \/ \E t \in Threads : CopyFail(t)
    \/ Restart

SpecClose == InitClose /\ [][NextClose]_vars

(***************************************************************************)
(* Properties.                                                             *)
(***************************************************************************)
\* The record a remember call returned is a row of `file`
Present(file, r) ==
    \E i \in 1..Len(file.mem[r.layer].rows) :
        /\ file.mem[r.layer].rows[i].id = r.memory_id
        /\ file.mem[r.layer].rows[i].content = r.content

\* C1: every one of the concurrent remember calls succeeds and returns an
\* id, and its record is a row of the authoritative store.
C1_EveryRememberSucceeds ==
    \A p \in Callers :
        ret[p].kind = "remember" =>
            ret[p].ok /\ Present(Committed, ret[p])

\* Thread t's reconciliation pass writes its last chunk in this step.
PassCompletes(t) ==
    /\ SyncRamToDisk(t) \/ CopyChunk(t)
    /\ pc'[t] # "copy"

\* The committed contents the fast store has had since thread t's pass began
Instants(t) == IF pc[t] = "sync" THEN {Committed} ELSE seen[t]

\* C2: when a reconciliation pass completes, the durable store equals the
\* committed content the fast store had at one instant during the pass,
\* never a mixture holding part of a write that was in progress.
C2_PassCapturesOneInstant ==
    [][\A t \in Threads : PassCompletes(t) => disk' \in Instants(t)]_vars

\* Caller p's checkpoint() returns normally in this step.
CheckpointReturns(p) ==
    /\ op[p].kind = "checkpoint"
    /\ pc[p] # "idle"
    /\ pc'[p] = "idle"
    /\ ret'[p].ok

\* C3: every record stored before checkpoint() was called is in the durable
\* store, in the same category with the same id and content, when
\* checkpoint() returns.
C3_CheckpointHoldsKnown ==
    [][\A p \in Callers :
          CheckpointReturns(p) => Keys(op[p].file) \subseteq Keys(disk')]_vars

\* Caller p's checkpoint() that returns in this step is the second of two
\* in a row: the call before it was a checkpoint that returned normally, no
\* other caller was in a call when either was made, and no remember or
\* recall has been made since the first was called.
SecondInARow(p) ==
    /\ CheckpointReturns(p)
    /\ op[p].before.kind = "checkpoint"
    /\ op[p].before.ok
    /\ op[p].before.alone
    /\ op[p].alone
    /\ budget.remember = op[p].before.budget.remember
    /\ budget.recall = op[p].before.budget.recall
    /\ budget.checkpoint = op[p].before.budget.checkpoint - 2

\* C4: the durable store after the second of two checkpoint() calls in a
\* row is identical to the durable store after the first.
C4_SecondCheckpointSame ==
    [][\A p \in Callers :
          SecondInARow(p) => disk' = op[p].before.disk]_vars

\* Caller p's close() returns normally in this step, and no foreground
\* call ran while it did: no other caller was in a call when it was made
\* and none has been made since.
CloseReturns(p) ==
    /\ op[p].kind = "close"
    /\ pc'[p] = "idle"
    /\ closed'
    /\ op[p].alone
    /\ Calls(budget) = Calls(op[p].budget)

\* C5: when close() returns with no foreground call concurrent with it, the
\* durable store equals the fast store, and after close() has returned the
\* auto-sync thread starts no reconciliation pass.
C5_CloseReconcilesAndStops ==
    [][/\ \A p \in Callers : (ram_db /\ CloseReturns(p)) => disk' = ram'
       /\ closed => ~SyncRamToDisk(SyncThread)]_vars

\* A new coordinator is constructed after caller p's close() returned, no
\* call having been made since close() was called.
ReopenedAfterClose(p) ==
    /\ closed
    /\ ~closed'
    /\ ret[p].kind = "close"
    /\ ret[p].ok
    /\ ret[p].alone
    /\ Calls(budget) = Calls(ret[p].budget)

\* C8: a coordinator constructed on the durable location after close()
\* gives the per-category counts and the query_layer results, in order, that
\* the original gave before close().
C8_RoundTripAcrossRestart ==
    [][\A p \in Callers :
          ReopenedAfterClose(p) =>
              /\ GetStats(ActiveFile') = GetStats(ret[p].file)
              /\ \A l \in LayerSet, limit \in Limits :
                     QueryLayer(ActiveFile', l, limit)
                         = QueryLayer(ret[p].file, l, limit)]_vars

\* The records a remember can return
Records ==
    [layer : {LayerFor(l, c, x) :
                 l \in RememberLayers, c \in Contents, x \in Contexts},
     memory_id : 1..MaxRemember,
     content : Contents]

\* A remember call has returned the id of record r
Stored(r) ==
    \E p \in Callers :
        /\ ret[p].kind = "remember"
        /\ ret[p].ok
        /\ ret[p].layer = r.layer
        /\ ret[p].memory_id = r.memory_id
        /\ ret[p].content = r.content

\* C6: with the auto-sync thread running, the timer firing and a pass
\* eventually succeeding, every record stored by a completed remember is
\* eventually in the durable store, without checkpoint() or close().
C6_EventuallyDurable ==
    \A r \in Records : Stored(r) ~> Present(disk, r)

\* A record that a remember returned has reached the durable store.
C6_StoredThenDurable ==
    \E r \in Records : Stored(r) /\ ram_db /\ Present(disk, r)

\* A remember of the DISK_ONLY coordinator has returned record ret[p]
ReturnedOnDisk(p) ==
    /\ ~ram_db
    /\ ret[p].kind = "remember"
    /\ ret[p].ok

\* C7: in DISK_ONLY state a record whose remember has returned an id is in
\* the durable store, and a coordinator constructed on the same durable
\* location right afterwards holds it.
C7_DurableAtReturn ==
    /\ [](\A p \in Callers : ReturnedOnDisk(p) => Present(disk, ret[p]))
    /\ [][\A p \in Callers :
            (ReturnedOnDisk(p) /\ Restart) => Present(ActiveFile', ret[p])]_vars

\* The new coordinator, on which no call has been made yet, holds a record
\* that a remember of the first one stored.
C7_ReopenedWithRecords ==
    /\ budget.restart = 0
    /\ \A p \in Callers : ret[p] = NoRet /\ pc[p] = "idle"
    /\ Keys(ActiveFile) # {}

\* The row with this id in a layer's table
RowOf(file, l, id) ==
    LET rows == file.mem[l].rows
    IN  rows[CHOOSE i \in 1..Len(rows) : rows[i].id = id]

\* Caller p's recall returns its result list in this step.
RecallReturns(p) ==
    /\ op[p].kind = "recall"
    /\ pc[p] = "commit"
    /\ pc'[p] = "idle"

\* The records in the list that caller p's recall returns in this step
Returned(p) ==
    {[layer |-> ret'[p].results[i].layer, id |-> ret'[p].results[i].id]
        : i \in 1..Len(ret'[p].results)}

\* C9: for every record in the list a recall returns, the access-count
\* after the call is the access-count before the call's update plus 1, and
\* last-accessed is not earlier than its previous value.
C9_ReturnedBumpedOnce ==
    [][\A p \in Callers :
          RecallReturns(p) =>
              \A x \in Returned(p) :
                  LET before == RowOf(Committed, x.layer, x.id)
                      after == RowOf(Committed', x.layer, x.id)
                  IN  /\ after.access_count = before.access_count + 1
                      /\ after.last_accessed >= before.last_accessed]_vars

\* C10: a record's access-count never decreases, and access-count and
\* last-accessed change only when a recall returns the record in its list.
C10_OnlyReturnedChange ==
    [][\A l \in LayerSet :
          \A i \in 1..Len(Committed.mem[l].rows) :
              LET before == Committed.mem[l].rows[i]
                  after == RowOf(Committed', l, before.id)
              IN  /\ after.access_count >= before.access_count
                  /\ (\/ after.access_count # before.access_count
                      \/ after.last_accessed # before.last_accessed)
                        => \E p \in Callers :
                              /\ RecallReturns(p)
                              /\ [layer |-> l, id |-> before.id]
                                    \in Returned(p)]_vars

\* Caller p's remember returns its id in this step.
RememberReturns(p) ==
    /\ op[p].kind = "remember"
    /\ pc[p] = "commit"
    /\ pc'[p] = "idle"

\* The records of one category's table
KeysIn(file, l) == {k \in Keys(file) : k.layer = l}

\* C11: a remember with an explicit category adds its record to that
\* category's table and to no other, whatever the classifier would choose
\* for its content and context.
C11_ExplicitCategoryKept ==
    [][\A p \in Callers :
          (RememberReturns(p) /\ ret'[p].given # NoLayer) =>
              /\ ret'[p].layer = ret'[p].given
              /\ \A l \in LayerSet :
                     KeysIn(Committed', l) \ KeysIn(Committed, l) =
                         IF l = ret'[p].given
                         THEN {[layer |-> l, memory_id |-> ret'[p].memory_id,
                                content |-> ret'[p].content]}
                         ELSE {}]_vars

\* A remember whose explicit category is not the one the classifier would
\* choose for its content has returned, and its record is in that category.
C11_KeptAgainstClassifier ==
    \E p \in Callers :
        /\ ret[p].kind = "remember"
        /\ ret[p].ok
        /\ ret[p].given # NoLayer
        /\ DetermineLayer(ret[p].content, ret[p].context) # ret[p].given
        /\ Present(Committed, ret[p])

\* The categories with keywords, in the order of precedence
Precedence ==
    << <<"identity", IdentityMarkers>>, <<"procedural", ProceduralMarkers>>,
       <<"meta", MetaMarkers>>, <<"working", WorkingMarkers>>,
       <<"semantic", SemanticMarkers>> >>

\* The lower-cased content-plus-context text
Combined(r) == Lower(r.content) \o <<" ">> \o Lower(r.context)

\* The places in the order of precedence whose keyword set has a match
MatchingSets(r) ==
    {i \in 1..Len(Precedence) : AnyIn(Precedence[i][2], Combined(r))}

\* C12: _determine_layer returns a category for every content and context:
\* the first in the order identity, procedural, meta, working, semantic
\* whose keyword set has a match in the lower-cased text, episodic when
\* none has; text with "i am" and "consciousness" is identity.
C12_FirstMatchWins ==
    \A p \in Callers :
        ret[p].kind = "determine_layer" =>
            /\ ret[p].layer \in LayerSet
            /\ ret[p].layer =
                  IF MatchingSets(ret[p]) = {} THEN "episodic"
                  ELSE Precedence[MinOf(MatchingSets(ret[p]))][1]
            /\ (/\ Contains(Combined(ret[p]), IdentityMarkers[1])
                /\ Contains(Combined(ret[p]), MetaMarkers[5]))
                  => ret[p].layer = "identity"

\* The classifier has returned identity for text that holds "consciousness"
\* before "i am".
C12_IdentityBeforeMeta ==
    \E p \in Callers :
        /\ ret[p].kind = "determine_layer"
        /\ ret[p].content = MetaMarkers[5] \o <<" ">> \o IdentityMarkers[1]
        /\ ret[p].layer = "identity"

\* C13: no two records of a category share an id, and the id an INSERT of
\* remember is given is greater than every id given before in that
\* category, also after close() and a new coordinator.
C13_IdsUniqueAndGrowing ==
    /\ [](\A l \in LayerSet :
            \A i, j \in 1..Len(Committed.mem[l].rows) :
                i # j => Committed.mem[l].rows[i].id # Committed.mem[l].rows[j].id)
    /\ [][\A p \in Callers :
            RememberInsert(p) =>
                op'[p].memory_id > assigned[op'[p].layer]]_vars

\* The records of the store whose content contains the text, as whole
\* words
Containing(file, text) ==
    {k \in Keys(file) : /\ Contains(k.content, text)
                        /\ Matches(Tokenize(k.content), Tokenize(text))}

\* Caller p's recall ends in this step, with a result list or with the
\* error of the search.
RecallEnds(p) ==
    /\ op[p].kind = "recall"
    /\ pc'[p] = "idle"
    /\ ret'[p].ok \/ ret'[p].error = "syntax"

\* C14: every record of the authoritative store whose content contains the
\* query text is among the results of recall for that query when limit is
\* at least the number of such records.
C14_ContainingRecordsFound ==
    [][\A p \in Callers :
          (/\ RecallEnds(p)
           /\ Containing(Committed', op[p].query) # {}
           /\ op[p].limit >= Cardinality(Containing(Committed', op[p].query)))
            => /\ ret'[p].ok
               /\ \A k \in Containing(Committed', op[p].query) :
                      [layer |-> k.layer, id |-> k.memory_id] \in Returned(p)]_vars

\* The matches of a query in all six categories, each with its score
AllMatches(file, query) ==
    UNION {{Search(file, l, query, NULL)[i]
              : i \in 1..Len(Search(file, l, query, NULL))} : l \in LayerSet}

\* Caller p's recall over all categories returns the list r in this step.
\* C15: r has at most limit results in non-decreasing order of relevance
\* score, results of equal score from different categories in the order of
\* the categories; r is the limit best-scoring matches over all six
\* categories, and the empty list when nothing matches.
C15_BestMatchesInOrder ==
    [][\A p \in Callers :
          (RecallEnds(p) /\ ret'[p].ok) =>
              LET r == ret'[p].results
                  all == AllMatches(Committed', op[p].query)
                  got == {r[i] : i \in 1..Len(r)}
              IN  /\ Len(r) <= op[p].limit
                  /\ Len(r) = IF Cardinality(all) < op[p].limit
                              THEN Cardinality(all) ELSE op[p].limit
                  /\ Cardinality(got) = Len(r)
                  /\ got \subseteq all
                  /\ \A x \in got, y \in all \ got : x.relevance <= y.relevance
                  /\ \A i, j \in 1..Len(r) :
                         i < j =>
                             /\ r[i].relevance <= r[j].relevance
                             /\ (/\ r[i].relevance = r[j].relevance
                                 /\ r[i].layer # r[j].layer)
                                   => LayerIndex(r[i].layer) < LayerIndex(r[j].layer)]_vars

\* A recall has returned a result of a later category before two results
\* of equal, worse score from two earlier categories.
C15_TieAcrossCategories ==
    \E p \in Callers :
        /\ ret[p].kind = "recall"
        /\ ret[p].ok
        /\ Len(ret[p].results) = 3
        /\ ret[p].results[1].relevance < ret[p].results[2].relevance
        /\ ret[p].results[2].relevance = ret[p].results[3].relevance
        /\ LayerIndex(ret[p].results[1].layer)
              > LayerIndex(ret[p].results[2].layer)
        /\ ret[p].results[2].layer # ret[p].results[3].layer

\* C16: a remember call whose content is empty adds no record to any
\* category of any store, consumes no identity, and ends by reporting an
\* error to its caller.
C16_EmptyContentRejected ==
    [][\A p \in Callers :
          (op[p].kind = "remember" /\ op[p].content = TextEmpty
             /\ pc'[p] # pc[p]) =>
              /\ assigned' = assigned
              /\ Keys(disk') = Keys(disk)
              /\ Keys(ram') = Keys(ram)
              /\ pc'[p] = "idle" => ~ret'[p].ok]_vars

\* C17: a recall call whose limit is zero or negative changes no record of
\* any store and ends by reporting an error to its caller, and so does a
\* query_layer call whose limit is zero or negative.
C17_NonPositiveLimitRejected ==
    [][\A p \in Callers :
          /\ (op[p].kind = "recall" /\ op[p].limit <= 0 /\ pc'[p] # pc[p]) =>
                /\ disk' = disk
                /\ ram' = ram
                /\ pc'[p] = "idle" => ~ret'[p].ok
          /\ (ret'[p] # ret[p] /\ ret'[p].kind = "query_layer"
                 /\ ret'[p].limit <= 0) =>
                /\ disk' = disk
                /\ ram' = ram
                /\ ~ret'[p].ok]_vars

\* The call of caller p raises in this step: a lock it waited for too long,
\* a query FTS5 cannot parse, or a storage error.
Raises(p) ==
    \/ Busy(p)
    \/ StorageError(p)
    \/ RecallSelect(p) /\ ~QueryOK(op[p].query)

\* C18: a remember or recall call that fails reports an error to its
\* caller, with no id and no result list, and nothing it did is stored:
\* both stores, and the committed content of the authoritative one, are
\* what they were before the failing step, the call's connection no longer
\* holds changes that a later commit could write, and the rollback of its
\* connection leaves both stores as they were.
C18_FailuresAtomicAndVisible ==
    [][/\ \A p \in Callers :
            Raises(p) =>
                /\ ~ret'[p].ok
                /\ DOMAIN ret'[p] \cap {"results", "memory_id"} = {}
                /\ disk' = disk
                /\ ram' = ram
                /\ Committed' = Committed
                /\ wlock' # p
       /\ Collect =>
            /\ disk' = disk
            /\ ram' = ram
            /\ Committed' = Committed
            /\ ActiveFile' = Committed']_vars

\* A recall has failed after its first UPDATE, its connection has been
\* collected, and no record of the store has changed.
C18_FailedAfterBump ==
    \E p \in Callers :
        /\ ret[p].kind = "recall"
        /\ ~ret[p].ok
        /\ ret[p].error = "storage"
        /\ ret[p].held
        /\ wlock = 0
        /\ budget.remember = 1
        /\ ActiveFile = StoredRecords

\* The store of the tier the constructor made authoritative, and the other
Authoritative == IF ram_db THEN ram ELSE disk

OtherTier == IF ram_db THEN disk ELSE ram

\* The call of caller p ends in this step
CallEnds(p) ==
    \/ pc[p] # "idle" /\ pc'[p] = "idle"
    \/ pc[p] = "idle" /\ pc'[p] = "idle" /\ ret'[p] # ret[p]

\* C19: the state chosen at construction never changes; no step of a
\* remember, recall, query_layer or get_stats call writes the store of the
\* other tier; an id is assigned, and records and statistics are returned,
\* from the authoritative store alone; and a call that ends while the
\* authoritative store has no tables fails.
C19_OneAuthoritativeTier ==
    [][/\ ram_db' = ram_db
       /\ OtherTier' = OtherTier
       /\ \A p \in Callers :
            /\ RememberInsert(p) =>
                  op'[p].memory_id = NextRowId(Authoritative, op[p].layer)
            /\ (CallEnds(p) /\ ~HasTables(Authoritative)) => ~ret'[p].ok
            /\ (CallEnds(p) /\ ret'[p].ok) =>
                  /\ ret'[p].kind = "get_stats" =>
                        /\ ret'[p].stats = GetStats(Authoritative)
                        /\ ret'[p].using_ram_disk = ram_db
                  /\ ret'[p].kind = "query_layer" =>
                        ret'[p].results =
                            QueryLayer(Authoritative, ret'[p].layer,
                                       ret'[p].limit)
                  /\ ret'[p].kind = "recall" =>
                        \A i \in 1..Len(ret'[p].results) :
                            ret'[p].results[i].id \in
                                RowIds(Authoritative',
                                       ret'[p].results[i].layer)]_vars

\* MIRRORED: get_stats has returned the counts of the fast store, which
\* were not those of the durable store, and a later call has failed on
\* the fast store without tables while the durable store has its records.
C19_FailsWithoutFallback ==
    /\ ram_db
    /\ ~HasTables(ram)
    /\ Keys(disk) # {}
    /\ \E p, q \in Callers :
          /\ ret[p].kind = "get_stats"
          /\ ret[p].ok
          /\ ret[p].stats # GetStats(disk)
          /\ ret[q].kind \in {"remember", "recall", "query_layer"}
          /\ ~ret[q].ok
          /\ ret[q].error = "no such table"

\* C20: in DISK_ONLY state there is no auto-sync thread and no copy is ever
\* in progress, and every checkpoint() and close() returns in the step it
\* is called, with success, leaving both files as they were.
C20_DiskOnlyNeverReconciles ==
    /\ [](~ram_db =>
            /\ pc[SyncThread] = "none"
            /\ \A t \in Threads : copying[t] = 0 /\ pc[t] \notin {"sync", "copy", "join"})
    /\ [][\A p \in Callers :
             (~ram_db /\ (CheckpointCall(p) \/ CloseCall(p))) =>
                 /\ pc'[p] = "idle"
                 /\ ret'[p].ok
                 /\ ret'[p].disk = disk
                 /\ disk' = disk
                 /\ ram' = ram]_vars

\* DISK_ONLY: checkpoint() and close() have both returned on a store that
\* held a record, and the record is there.
C20_ReturnedOnDiskOnly ==
    /\ ~ram_db
    /\ closed
    /\ \E p, q \in Callers :
          /\ ret[p].kind = "checkpoint"
          /\ ret[p].ok
          /\ Keys(ret[p].disk) # {}
          /\ ret[q].kind = "close"
          /\ ret[q].ok
          /\ Keys(ret[q].disk) # {}
          /\ Keys(disk) = Keys(ret[q].disk)

\* The listing or statistics call of caller p is made in this step
Lists(p) ==
    /\ pc[p] = "idle"
    /\ pc'[p] = "idle"
    /\ ret'[p] # ret[p]
    /\ ret'[p].kind \in {"query_layer", "get_stats"}

\* C21: a query_layer call, whatever its limit, order and filter, and a
\* get_stats call change nothing in either store, nor in a transaction that
\* is open; a query_layer call with a positive limit returns at most limit
\* rows, all of the requested category, and with the default order and no
\* filter they are the newest rows of the category, newest first.
C21_ListingReadOnly ==
    [][\A p \in Callers : Lists(p) =>
          /\ disk' = disk
          /\ ram' = ram
          /\ cache' = cache
          /\ (ret'[p].kind = "query_layer" /\ ret'[p].ok /\ ret'[p].limit > 0) =>
                LET r == ret'[p].results
                    rows == Authoritative.mem[ret'[p].layer].rows
                    all == {rows[i] : i \in 1..Len(rows)}
                    got == {r[i] : i \in 1..Len(r)}
                IN  /\ Len(r) <= ret'[p].limit
                    /\ got \subseteq all
                    /\ Cardinality(got) = Len(r)
                    /\ (ret'[p].order_by = DefaultOrder /\ ret'[p].where = NoWhere) =>
                          /\ Len(r) = MinOf({ret'[p].limit, Len(rows)})
                          /\ \A i, j \in 1..Len(r) :
                                i < j => r[i].timestamp >= r[j].timestamp
                          /\ \A x \in all \ got, y \in got :
                                x.timestamp <= y.timestamp]_vars

\* A default query_layer call with limit 2 has returned the two newest
\* rows, of ids 1 and 3, leaving the older row of id 2 out, and the store
\* holds its records with the access data they had.
C21_NewestListed ==
    \E p \in Callers :
        /\ ret[p].kind = "query_layer"
        /\ ret[p].ok
        /\ ret[p].order_by = DefaultOrder
        /\ ret[p].where = NoWhere
        /\ Len(ret[p].results) = 2
        /\ ret[p].results[1].timestamp > 1
        /\ ret[p].results[2].id > 2
        /\ Authoritative = DatedRecords

\* C22: a get_stats call reports for each category the number of records
\* committed in that category of the authoritative store, and their sum as
\* the total; the step in which a remember call returns its id raises the
\* count of exactly one category, and the total, by one, and no other step
\* (of a recall, query_layer, get_stats or checkpoint call, or of a
\* remember that has not returned) changes any count of that store.
C22_StatsCountRecords ==
    [][/\ \A p \in Callers :
            (Lists(p) /\ ret'[p].kind = "get_stats" /\ ret'[p].ok) =>
                /\ \A l \in LayerSet :
                      ret'[p].stats.layers[l] = Cardinality(KeysIn(Committed, l))
                /\ ret'[p].stats.total_memories = Cardinality(Keys(Committed))
       /\ LET before == GetStats(Committed)
              after == GetStats(Committed')
          IN  IF \E p \in Callers : RememberReturns(p)
              THEN /\ after.total_memories = before.total_memories + 1
                   /\ \E l \in LayerSet :
                         /\ after.layers[l] = before.layers[l] + 1
                         /\ \A k \in LayerSet \ {l} :
                               after.layers[k] = before.layers[k]
              ELSE after = before]_vars

\* After the remember, the recall and the checkpoint, get_stats has
\* reported three records, two of them in one category.
C22_ThreeCounted ==
    \E p \in Callers :
        /\ ret[p].kind = "get_stats"
        /\ ret[p].ok
        /\ ret[p].stats.total_memories = 3
        /\ \E l \in LayerSet : ret[p].stats.layers[l] = 2
        /\ Calls(budget) = <<0, 0, 0>>
        /\ \A q \in Callers : pc[q] = "idle"

Copying == {t \in Threads : pc[t] = "copy"}

\* C24: at no time are two reconciliation passes (of the auto-sync thread,
\* of a checkpoint() call, of close()) in the course of copying the fast
\* store onto the durable store.
C24_OnePassAtATime == Cardinality(Copying) <= 1

\* Caller p is in a remember or recall call
InCall(p) == pc[p] # "idle" /\ op[p].kind \in {"remember", "recall"}

Constructed == budget'.restart < budget.restart

\* The greatest id of category l in the file, 0 if it has none
LastId(file, l) == MaxOf(RowIds(file, l) \cup {0})

\* C26: the step that constructs a coordinator with a fast location leaves
\* in the fast file the content the durable file has at that time, and
\* leaves the durable file as it is, whatever the fast file held before.
C26_HydrateFromDurable ==
    [][Constructed /\ ram_db' => ram' = disk /\ disk' = disk]_vars

\* A MIRRORED coordinator has just been constructed, its fast file equal to
\* the durable one, and a record that an earlier coordinator stored in the
\* fast file only is in neither.
C26_UnreconciledGone ==
    /\ ram_db
    /\ budget.restart < MaxRestart
    /\ \A p \in Callers : pc[p] = "idle" /\ ret[p] = NoRet
    /\ ram = disk
    /\ \E l \in LayerSet : assigned[l] > LastId(ram, l)

\* C27: after construction the fast file changes only when the holder of
\* the write lock, in a remember or a recall, commits a page of its own
\* changes to it: no step of any operation copies the durable file, or
\* anything else, into the fast file.
C27_OneDirectional ==
    [][ram' # ram =>
         \E p \in Callers :
            /\ wlock = p
            /\ pc[p] = "commit"
            /\ op[p].kind \in {"remember", "recall"}
            /\ \E n \in DirtyPages(ram, cache) :
                  ram' = WritePage(ram, n, cache)]_vars

\* The checkpoint and the scheduled pass are over, a remember made after
\* them has returned, and its record is in the fast file only.
C27_FastAheadAfterPasses ==
    /\ ram_db
    /\ budget.checkpoint = 0
    /\ budget.passes = 0
    /\ \A t \in Threads : pc[t] \notin {"sync", "copy"}
    /\ ret[Caller].kind = "remember"
    /\ ret[Caller].ok
    /\ Keys(ram) \ Keys(disk) # {}
    /\ Keys(disk) = Keys(TwoRecords)

\* Thread t takes a step of a reconciliation pass: the scheduled one, or
\* the one of a checkpoint() or close() call
PassStep(t) ==
    /\ pc[t] \in {"sync", "copy"}
    /\ t \in Callers => op[t].kind \in {"checkpoint", "close"}
    /\ pc'[t] # pc[t] \/ copying'[t] # copying[t]

\* C28: in MIRRORED state no step writes both files; a step of a remember
\* or recall call leaves the durable file as it is; the durable file
\* changes only in a step of a reconciliation pass, which leaves the fast
\* file as it is.
C28_TiersWrittenApart ==
    /\ [][ram_db /\ ram' # ram => disk' = disk]_vars
    /\ [][\A p \in Callers :
            ram_db /\ InCall(p) /\ (pc'[p] # pc[p] \/ op'[p] # op[p])
            => disk' = disk]_vars
    /\ [][ram_db /\ disk' # disk =>
            ram' = ram /\ \E t \in Threads : PassStep(t)]_vars

\* A remember and a recall have been made and have returned; the fast file
\* has the new record and the new access count, the durable file is as it
\* was at construction, no pass having begun.
C28_OnlyFastWritten ==
    /\ ram_db
    /\ budget.remember = 0
    /\ budget.recall = 0
    /\ budget.checkpoint = 1
    /\ budget.passes = MaxPasses
    /\ \A t \in Threads : pc[t] \in {"idle", "wait"}
    /\ ret[Caller].ok
    /\ ~closed /\ ~stop_sync
    /\ Keys(ram) \ Keys(disk) # {}
    /\ disk = TwoRecords

\* The scheduled pass of the auto-sync thread ends in this step,
\* completed or failed
ScheduledPassEnds ==
    /\ pc[SyncThread] \in {"sync", "copy"}
    /\ pc'[SyncThread] \notin {"sync", "copy"}

\* However a scheduled pass ends, the auto-sync thread goes back to its
\* wait for the next tick, and no caller's call is ended or has its
\* result changed by it.
ScheduledFailureContained ==
    [][ScheduledPassEnds =>
         /\ pc'[SyncThread] = "wait"
         /\ ret' = ret
         /\ \A p \in Callers : pc'[p] = pc[p] /\ op'[p] = op[p]]_vars

\* C29: a scheduled pass that fails leaves the auto-sync thread waiting for
\* its next tick and touches no caller's call, and no call of a caller
\* ends with the failure of a reconciliation pass.
C29_FailureNeverPropagated ==
    /\ ScheduledFailureContained
    /\ [](\A p \in Callers :
            ret[p].kind \in {"checkpoint", "close"} => ret[p].ok)

\* C30: once the stop signal is set the auto-sync thread leaves its wait
\* for no further pass and, once ended, stays ended; the signal stays set;
\* and the thread comes to its end, after the pass it is in, if any.
C30_StopHonoured ==
    /\ [][stop_sync /\ pc[SyncThread] \in {"wait", "done"}
           => pc'[SyncThread] \in {"wait", "done"}]_vars
    /\ [][stop_sync /\ pc[SyncThread] = "done" => pc'[SyncThread] = "done"]_vars
    /\ [][stop_sync => stop_sync']_vars
    /\ stop_sync ~> pc[SyncThread] = "done"

\* close() has joined the auto-sync thread, which has ended, its pass
\* having left in the durable file a record stored before.
C30_ThreadEnded ==
    /\ stop_sync
    /\ pc[SyncThread] = "done"
    /\ Keys(disk) # {}
    /\ \E p \in Callers : pc[p] = "sync" /\ op[p].kind = "close"

\* Caller p is in close()
InClose(p) == pc[p] # "idle" /\ op[p].kind = "close"

\* C31: close() leaves its join for the final reconciliation whether the
\* auto-sync thread has ended or not, and every close() that is called
\* comes to its end, whatever the auto-sync thread does.
C31_CloseTerminates ==
    /\ [][\A p \in Callers :
            pc[p] = "join" /\ pc'[p] # "join" => pc'[p] = "sync"]_vars
    /\ \A p \in Callers : InClose(p) ~> pc[p] = "idle"

\* close() has returned while the auto-sync thread is still inside a pass
\* that it began before the signal was set.
C31_ClosedWhileStuck ==
    /\ closed
    /\ stop_sync
    /\ pc[SyncThread] = "copy"
    /\ \E p \in Callers : ret[p].kind = "close" /\ ret[p].ok

\* What a record is stored with, and its access columns
Fixed(row) ==
    [id |-> row.id, content |-> row.content, timestamp |-> row.timestamp,
     importance |-> row.importance,
     emotional_intensity |-> row.emotional_intensity,
     context |-> row.context, tags |-> row.tags]

Access(row) ==
    [id |-> row.id, access_count |-> row.access_count,
     last_accessed |-> row.last_accessed]

RowsOf(file, l) == {file.mem[l].rows[i] : i \in 1..Len(file.mem[l].rows)}

\* C32: every record the authoritative store holds stays in its category
\* with the id, content, timestamp, importance, emotional intensity,
\* context and tags it was stored with; its access count and last-accessed
\* time change only when a recall commits.
C32_RecordsImmutable ==
    /\ [][\A l \in LayerSet :
            {Fixed(r) : r \in RowsOf(Committed, l)}
               \subseteq {Fixed(r) : r \in RowsOf(Committed', l)}]_vars
    /\ [][(\E l \in LayerSet :
             ~({Access(r) : r \in RowsOf(Committed, l)}
                  \subseteq {Access(r) : r \in RowsOf(Committed', l)}))
           => \E p \in Callers :
                 wlock = p /\ pc[p] = "commit" /\ op[p].kind = "recall"]_vars

\* The remember and the recall have returned: a category holds one record
\* more than at construction, and a record of it has been counted.
C32_StoredThenCounted ==
    /\ budget.remember = 0
    /\ budget.recall = 0
    /\ wlock = 0
    /\ \A p \in Callers : pc[p] = "idle"
    /\ \E p \in Callers : ret[p].kind = "remember" /\ ret[p].ok
    /\ \E p \in Callers : ret[p].kind = "recall" /\ ret[p].ok
    /\ \E l \in LayerSet :
          /\ Len(ActiveFile.mem[l].rows) > Len(TwoRecords.mem[l].rows)
          /\ \E r \in RowsOf(ActiveFile, l) : r.access_count > 0

\* C33: the records the durable file held at construction are in it in
\* every later state in which no reconciliation pass is copying, whatever
\* operations and passes there have been.
C33_DurableKeepsRecords ==
    (\A t \in Threads : pc[t] # "copy")
    => Keys(TwoRecords) \subseteq Keys(disk)

\* The callers whose recall has returned its list
Recalled == {p \in Callers : ret[p].kind = "recall" /\ ret[p].ok}

\* The record of category l with this id is in the list caller p got
InList(p, l, id) ==
    \E i \in 1..Len(ret[p].results) :
        ret[p].results[i].layer = l /\ ret[p].results[i].id = id

\* All the recall calls have been made, by as many callers, and have
\* returned their lists
AllRecalled ==
    /\ budget.recall = 0
    /\ \A p \in Callers : pc[p] = "idle"
    /\ wlock = 0
    /\ Cardinality(Recalled) = MaxRecall

\* C34: when the overlapping recall calls have all returned, every record
\* that is in the list of each of them has the access count it had before
\* plus the number of the calls.
C34_NoBumpLost ==
    AllRecalled =>
        \A l \in LayerSet : \A r \in RowsOf(ActiveFile, l) :
            (\A p \in Recalled : InList(p, l, r.id))
            => r.access_count
                  = RowOf(StoredRecords, l, r.id).access_count + MaxRecall

\* Overlapping recall calls have all returned, and a record is in the list
\* of each of them.
C34_ReturnedByAll ==
    /\ AllRecalled
    /\ \E l \in LayerSet : \E r \in RowsOf(ActiveFile, l) :
          /\ \A p \in Recalled : InList(p, l, r.id)
          /\ r.access_count = MaxRecall

====
